---- MODULE Spec2Model ----
(***************************************************************************)
(* Model of the mock-data subsystem of survey-sensei:                       *)
(*   - scenario_builder.determine_scenario_id / SCENARIO_CONFIGS            *)
(*   - MockReviewAgent.generate_reviews_for_sentiment_spread (the counts)   *)
(*   - MockDataOrchestrator.generate_simulation_data, driven the way        *)
(*     main.generate_mock_data drives it.                                   *)
(*   - MockDataOrchestrator._calculate_user_engagement_metrics, in the      *)
(*     orchestration (step 6) and alone.                                    *)
(*   - the batch loops of the review and user builders, alone.              *)
(*   - main.generate_mock_data against the database, with the orchestrator  *)
(*     reduced to its outcome.                                              *)
(*   - BaseMockAgent.generate_embeddings_batch, alone.                      *)
(*   - the retry loops of _call_llm, generate_embeddings and                *)
(*     RapidAPIClient._make_request, alone.                                 *)
(*                                                                         *)
(* Abstractions, stated once:                                              *)
(*   - uuid4() is a fresh value: ids are taken from the counter `clock`,    *)
(*     which also stamps created_at, so the stamp order is creation order.  *)
(*   - The LLM, the catalog API and `random` are the environment: every     *)
(*     outcome is a nondeterministic choice, raising included. The number   *)
(*     of items the environment delivers is bounded by the Max* bounds:     *)
(*     the product and user generators deliver the count asked for, cut to  *)
(*     the bound, with item ids that are distinct; the catalog API and the  *)
(*     LLM's review lists deliver any number of reviews up to what is asked *)
(*     and to what MaxReviews leaves for the run.                           *)
(*   - An exception unwinds generate_simulation_data: its locals are gone.  *)
(*   - random.sample returns its sample in list order here; no modelled     *)
(*     statement reads the order of a sample.                               *)
(*   - Dates, prices, texts and titles are not modelled.                    *)
(*   - The orchestrator passes generate_embeddings=False to every builder;  *)
(*     the model lets the keyword bind and have no effect (no builder body  *)
(*     reads it on this path). With the signatures as they stand in         *)
(*     mock_pdt_agent.py:178 and mock_rvw_agent.py:29,69,235,268,342 the     *)
(*     keyword does not bind and the call raises TypeError; the model       *)
(*     covers that outcome with the raise of the step (pc = "raised").      *)
(***************************************************************************)
EXTENDS Integers, Sequences, FiniteSets, TLC

VARIABLES
    pc,                 \* position of the request / of the function being run
    form,               \* form_data of the request
    scenario_id,        \* result of determine_scenario_id(form_data)
    api_reviews,        \* reviews fetched from the catalog API (their star ratings)
    similar_products,   \* item ids of the generated similar products
    diverse_products,   \* item ids of the generated diverse products
    mock_users,         \* user ids of the generated mock users
    transactions,       \* the orchestrator's working transaction list
    reviews,            \* the orchestrator's working review list
    returned_reviews,   \* reviews a builder has built and not yet handed to the working list
    returned_txns,      \* transactions a builder returned, not yet extended into `transactions`
    loop_i,             \* index of the product the for loop in progress is at
    clock,              \* source of uuid4() values and created_at stamps
    existing_reviews,   \* generate_reviews_for_sentiment_spread: argument
    sentiment_spread,   \* generate_reviews_for_sentiment_spread: argument
    target_total,       \* generate_reviews_for_sentiment_spread: argument
    requested,          \* generate_reviews_for_sentiment_spread: the counts it requests
    user_metrics,       \* all_users as dictionaries, once the metrics calculator has written them
    metrics_runs,       \* number of calls of _calculate_user_engagement_metrics
    builder,            \* batch loop: which builder runs it
    builder_count,      \* batch loop: the count asked of the builder
    remaining,          \* batch loop: the entities still to ask the LLM for
    batches,            \* batch loop: the number of entities each finished batch added
    builder_result,     \* batch loop: what the caller of the builder receives
    store,              \* request: the rows of each table of the database
    store_before,       \* request: the store when the request arrived
    mock_data,          \* request: the rows the orchestrator produced, per table
    db_step,            \* request: index of the delete or insert to run next
    response,           \* request: the HTTP status answered, 0 while running
    embed_items,        \* generate_embeddings_batch: the items, mutated in place
    embed_items_in,     \* generate_embeddings_batch: the items as they entered
    embed_batch_size,   \* generate_embeddings_batch: batch_size
    all_embeddings,     \* generate_embeddings_batch: the embeddings gathered so far
    chunk_start,        \* generate_embeddings_batch: i of the loop over chunks
    failed_chunks,      \* generate_embeddings_batch: batch_num of the chunks whose call failed
    callee,             \* retried call: which function runs its retry loop
    attempt,            \* retried call: the loop variable
    outcomes,           \* retried call: what the remote end did at each attempt so far
    events,             \* retried call: 0 for an attempt, n for time.sleep(n), in order
    retry_result,       \* retried call: "running", "returned" or "raised"
    rank_kind,          \* ranking: which ranking method is called
    rank_in,            \* ranking: the list handed to the method
    ranked,             \* ranking: the list the method returns
    similar_interactions, \* customer context: the ranked similar-product transactions
    llm_response,       \* context agents: what the LLM answered
    customer_context,   \* customer context: the CustomerContext being built
    num_reviews,        \* product context: number of reviews db.get_product_reviews returned
    product_context,    \* product context: the ProductContext being built
    survey_settings,    \* survey: the limits of the module config
    session_cache,      \* survey: _session_state_cache[session_id], NoSession once deleted
    persisted,          \* survey: the final state _complete_survey has written
    last_call           \* survey: the last call, its arguments and whether it raised

vars == <<pc, form, scenario_id, api_reviews, similar_products, diverse_products,
          mock_users, transactions, reviews, returned_reviews, returned_txns, loop_i,
          clock, existing_reviews, sentiment_spread, target_total, requested,
          user_metrics, metrics_runs, builder, builder_count, remaining, batches, builder_result,
          store, store_before, mock_data, db_step, response,
          embed_items, embed_items_in, embed_batch_size, all_embeddings, chunk_start, failed_chunks,
          callee, attempt, outcomes, events, retry_result,
          rank_kind, rank_in, ranked,
          similar_interactions, llm_response, customer_context,
          num_reviews, product_context,
          survey_settings, session_cache, persisted, last_call>>

orchVars == <<form, scenario_id, api_reviews, similar_products, diverse_products,
              mock_users, transactions, reviews, returned_reviews, returned_txns, loop_i,
              clock, user_metrics, metrics_runs>>

spreadVars == <<existing_reviews, sentiment_spread, target_total, requested>>

metricVars == <<user_metrics, metrics_runs>>

builderVars == <<builder, builder_count, remaining, batches, builder_result>>

\* The variables of the builder loop, the embedding phase, the retried calls
\* and the store, each run alone.
storeVars == <<store, store_before, mock_data, db_step, response>>

embedVars == <<embed_items, embed_items_in, embed_batch_size, all_embeddings, chunk_start, failed_chunks>>

retryVars == <<callee, attempt, outcomes, events, retry_result>>

\* The variables of the context agents, each run alone.
rankVars == <<rank_kind, rank_in, ranked>>

customerVars == <<similar_interactions, customer_context>>

productVars == <<num_reviews, product_context>>

contextVars == <<rankVars, customerVars, productVars, llm_response>>

surveyVars == <<survey_settings, session_cache, persisted, last_call>>

agentVars == <<contextVars, surveyVars>>

laterVars == <<builderVars, storeVars, embedVars, retryVars, agentVars>>

\* The variables of the functions that are run alone.
aloneVars == <<spreadVars, laterVars>>

----------------------------------------------------------------------------
(* Bounds of the environment                                               *)

MaxSimilarProducts == 1     \* most similar products the LLM delivers
MaxDiverseProducts == 1     \* most diverse products the LLM delivers
MaxMockUsers == 2           \* most mock users the LLM delivers
MaxReviews == 1             \* most reviews the catalog API and the LLM's lists deliver, per run
MaxExisting == 3            \* longest existing_reviews list given to the spread function
MaxTarget == 4              \* largest small target_total given to the spread function
MaxMetricTransactions == 4  \* longest transaction list given to the metrics calculator
MaxBuilderCount == 21       \* largest count asked of a builder's batch loop
MaxItems == 3               \* longest item list given to the embedding phase
MaxBatchSize == 2           \* largest batch_size given to the embedding phase

Min(a, b) == IF a < b THEN a ELSE b
Max(a, b) == IF a > b THEN a ELSE b

----------------------------------------------------------------------------
(* scenario_builder.py                                                     *)

YesNo == {"YES", "NO"}

ScenarioIds == {"A1", "A2", "A3", "A4", "B1", "B2", "B3", "B4", "C1", "C2", "C3", "C4"}

\* The spread a request of the orchestration runs carries.
RequestSpreads == { [good |-> 70, neutral |-> 20, bad |-> 10] }

FormData ==
    [ productPurchased : {"exact", "similar"},
      userPurchasedExact : YesNo,
      userPurchasedSimilar : YesNo,
      userReviewedExact : YesNo,
      userReviewedSimilar : YesNo,
      hasMainProductReviews : {"yes", "no"},
      hasSimilarProductsReviews : {"yes", "no"},
      sentimentSpread : RequestSpreads ]

is_warm_product(f) == f.productPurchased = "exact"

has_purchases(f) == f.userPurchasedExact = "YES" \/ f.userPurchasedSimilar = "YES"

has_reviews(f) == f.userReviewedExact = "YES" \/ f.userReviewedSimilar = "YES"

is_warm_user(f) == has_purchases(f) \/ has_reviews(f)

\* Mutant: the last branch tests for the cold/cold group named in its comment
\* and falls through (returns None) for an input of no group.
determine_scenario_id_falls_through(f) ==
    IF is_warm_product(f) /\ is_warm_user(f) THEN
        IF f.userReviewedExact = "YES" /\ f.userReviewedSimilar = "YES" THEN "A1"
        ELSE IF f.userReviewedExact = "YES" /\ f.userReviewedSimilar = "NO" THEN "A2"
        ELSE IF f.userReviewedExact = "NO" /\ f.userReviewedSimilar = "YES" THEN "A3"
        ELSE "A4"
    ELSE IF ~is_warm_product(f) /\ is_warm_user(f) THEN
        IF f.userPurchasedExact = "NO" /\ f.userReviewedSimilar = "YES" THEN "B1"
        ELSE IF f.userPurchasedExact = "NO" /\ f.userReviewedSimilar = "NO" THEN "B2"
        ELSE IF f.userPurchasedExact = "YES" /\ f.userReviewedSimilar = "YES" THEN "B3"
        ELSE "B4"
    ELSE IF ~is_warm_product(f) /\ ~is_warm_user(f) THEN
        IF f.userReviewedSimilar = "YES" THEN "C1"
        ELSE IF f.userPurchasedExact = "NO" /\ f.userPurchasedSimilar = "NO" THEN "C2"
        ELSE IF f.userPurchasedExact = "YES" THEN "C3"
        ELSE "C4"
    ELSE "None"

\* Mutant: group B is split on userReviewedExact where the code reads
\* userPurchasedExact.
determine_scenario_id_b_on_reviewed_exact(f) ==
    IF is_warm_product(f) /\ is_warm_user(f) THEN
        IF f.userReviewedExact = "YES" /\ f.userReviewedSimilar = "YES" THEN "A1"
        ELSE IF f.userReviewedExact = "YES" /\ f.userReviewedSimilar = "NO" THEN "A2"
        ELSE IF f.userReviewedExact = "NO" /\ f.userReviewedSimilar = "YES" THEN "A3"
        ELSE "A4"
    ELSE IF ~is_warm_product(f) /\ is_warm_user(f) THEN
        IF f.userReviewedExact = "NO" /\ f.userReviewedSimilar = "YES" THEN "B1"
        ELSE IF f.userReviewedExact = "NO" /\ f.userReviewedSimilar = "NO" THEN "B2"
        ELSE IF f.userReviewedExact = "YES" /\ f.userReviewedSimilar = "YES" THEN "B3"
        ELSE "B4"
    ELSE
        IF f.userReviewedSimilar = "YES" THEN "C1"
        ELSE IF f.userPurchasedExact = "NO" /\ f.userPurchasedSimilar = "NO" THEN "C2"
        ELSE IF f.userPurchasedExact = "YES" THEN "C3"
        ELSE "C4"

determine_scenario_id(f) ==
    IF is_warm_product(f) /\ is_warm_user(f) THEN
        IF f.userReviewedExact = "YES" /\ f.userReviewedSimilar = "YES" THEN "A1"
        ELSE IF f.userReviewedExact = "YES" /\ f.userReviewedSimilar = "NO" THEN "A2"
        ELSE IF f.userReviewedExact = "NO" /\ f.userReviewedSimilar = "YES" THEN "A3"
        ELSE "A4"
    ELSE IF ~is_warm_product(f) /\ is_warm_user(f) THEN
        IF f.userPurchasedExact = "NO" /\ f.userReviewedSimilar = "YES" THEN "B1"
        ELSE IF f.userPurchasedExact = "NO" /\ f.userReviewedSimilar = "NO" THEN "B2"
        ELSE IF f.userPurchasedExact = "YES" /\ f.userReviewedSimilar = "YES" THEN "B3"
        ELSE "B4"
    ELSE
        IF f.userReviewedSimilar = "YES" THEN "C1"
        ELSE IF f.userPurchasedExact = "NO" /\ f.userPurchasedSimilar = "NO" THEN "C2"
        ELSE IF f.userPurchasedExact = "YES" THEN "C3"
        ELSE "C4"

\* SCENARIO_CONFIGS: the fields the orchestrator and main.py read.
SCENARIO_CONFIGS(id) ==
    IF id \in {"A1", "A2", "A3", "A4"} THEN
        [ scenario_id |-> id, group |-> "warm_warm", similar_product_count |-> 5,
          diverse_product_count |-> 3, mock_user_count |-> 20,
          main_product_reviews |-> 100, similar_product_reviews |-> 20,
          generate_embeddings |-> FALSE ]
    ELSE IF id \in {"B1", "B2", "B3", "B4"} THEN
        [ scenario_id |-> id, group |-> "cold_warm", similar_product_count |-> 5,
          diverse_product_count |-> 3, mock_user_count |-> 15,
          main_product_reviews |-> 0, similar_product_reviews |-> 30,
          generate_embeddings |-> FALSE ]
    ELSE
        [ scenario_id |-> id, group |-> "cold_cold", similar_product_count |-> 5,
          diverse_product_count |-> 3, mock_user_count |-> 10,
          main_product_reviews |-> 0, similar_product_reviews |-> 25,
          generate_embeddings |-> FALSE ]

NoForm == [ productPurchased |-> "none" ]

build_scenario_config(f) == SCENARIO_CONFIGS(determine_scenario_id(f))

----------------------------------------------------------------------------
(* mock_rvw_agent.py: generate_reviews_for_sentiment_spread, the counts     *)

Stars == 1..5

\* The (percent, target) pairs, target <= 200, at which the double-precision
\* product (percent / 100) * target lies below the exact integer quotient, so
\* that int() truncates it to one less than percent * target \div 100.
FloatProductBelow ==
    { <<58, 50>>, <<70, 90>>, <<29, 100>>, <<57, 100>>, <<58, 100>>, <<82, 150>>,
      <<70, 170>>, <<35, 180>>, <<70, 180>>, <<29, 200>>, <<57, 200>>, <<58, 200>> }

\* int((percent / 100) * target), evaluated in double precision.
IntShare(percent, target) ==
    IF <<percent, target>> \in FloatProductBelow
    THEN ((percent * target) \div 100) - 1
    ELSE (percent * target) \div 100

IsGood(r) == r.review_stars >= 4
IsNeutral(r) == r.review_stars = 3
IsBad(r) == r.review_stars <= 2

\* The good/neutral/bad counts the function passes to
\* _generate_reviews_with_sentiment; all 0 when it returns [], [] at once.
SpreadCounts(existing, spread, target) ==
    LET current_count == Len(existing)
        needed_count == target - current_count
        good_needed == Max(0, IntShare(spread.good, target) - Len(SelectSeq(existing, IsGood)))
        neutral_needed == Max(0, IntShare(spread.neutral, target) - Len(SelectSeq(existing, IsNeutral)))
        bad_needed == Max(0, IntShare(spread.bad, target) - Len(SelectSeq(existing, IsBad)))
        total_sentiment == good_needed + neutral_needed + bad_needed
    IN  IF needed_count <= 0
        THEN [good |-> 0, neutral |-> 0, bad |-> 0]
        ELSE [ good |-> IF total_sentiment < needed_count
                        THEN good_needed + (needed_count - total_sentiment)
                        ELSE good_needed,
               neutral |-> neutral_needed,
               bad |-> bad_needed ]

\* Inputs of generate_reviews_for_sentiment_spread run alone.
SpreadPercents == { 0, 10, 20, 29, 30, 40, 50, 60, 61, 70, 80, 90, 100 }

SpreadInputs ==
    { s \in [good : SpreadPercents, neutral : SpreadPercents, bad : SpreadPercents] :
        s.good + s.neutral + s.bad = 100 }

TargetInputs == (0..MaxTarget) \cup {100}

RECURSIVE SeqsUpTo(_, _)
SeqsUpTo(S, n) ==
    IF n = 0 THEN { <<>> }
    ELSE LET shorter == SeqsUpTo(S, n - 1)
         IN  shorter \cup { Append(q, x) : q \in shorter, x \in S }

ExistingInputs == { [i \in DOMAIN q |-> [review_stars |-> q[i]]] : q \in SeqsUpTo(Stars, MaxExisting) }

NoCounts == [good |-> -1, neutral |-> -1, bad |-> -1]

OrchIdle ==
    /\ form = NoForm
    /\ scenario_id = "None"
    /\ api_reviews = <<>>
    /\ similar_products = <<>>
    /\ diverse_products = <<>>
    /\ mock_users = <<>>
    /\ transactions = <<>>
    /\ reviews = <<>>
    /\ returned_reviews = <<>>
    /\ returned_txns = <<>>
    /\ loop_i = 1
    /\ clock = 0
    /\ user_metrics = <<>>
    /\ metrics_runs = 0

NoContext == [context_type |-> "none"]

NoSession == [ session |-> "none" ]

NoResult == [kind |-> "none", n |-> 0]

BuilderIdle ==
    /\ builder = "none"
    /\ builder_count = 0
    /\ remaining = 0
    /\ batches = <<>>
    /\ builder_result = NoResult

Tables == {"survey_sessions", "reviews", "transactions", "users", "products"}

NoRows == [ t \in Tables |-> {} ]

StoreIdle ==
    /\ store = NoRows
    /\ store_before = NoRows
    /\ mock_data = NoRows
    /\ db_step = 1
    /\ response = 0

EmbedIdle ==
    /\ embed_items = <<>>
    /\ embed_items_in = <<>>
    /\ embed_batch_size = 1
    /\ all_embeddings = <<>>
    /\ chunk_start = 0
    /\ failed_chunks = {}

RetryIdle ==
    /\ callee = "none"
    /\ attempt = 0
    /\ outcomes = <<>>
    /\ events = <<>>
    /\ retry_result = "none"

RankIdle ==
    /\ rank_kind = "none"
    /\ rank_in = <<>>
    /\ ranked = <<>>

CustomerIdle ==
    /\ similar_interactions = <<>>
    /\ customer_context = NoContext

ProductIdle ==
    /\ num_reviews = 0
    /\ product_context = NoContext

SurveyIdle ==
    /\ survey_settings = NoSession
    /\ session_cache = NoSession
    /\ persisted = NoSession
    /\ last_call = NoSession

AgentIdle == RankIdle /\ CustomerIdle /\ ProductIdle /\ llm_response = "none" /\ SurveyIdle

LaterIdle == BuilderIdle /\ StoreIdle /\ EmbedIdle /\ RetryIdle /\ AgentIdle

SpreadIdle ==
    /\ existing_reviews = <<>>
    /\ sentiment_spread = [good |-> 0, neutral |-> 0, bad |-> 0]
    /\ target_total = 0
    /\ requested = NoCounts

InitSpread ==
    /\ pc = "spread_call"
    /\ existing_reviews \in ExistingInputs
    /\ sentiment_spread \in SpreadInputs
    /\ target_total \in TargetInputs
    /\ requested = NoCounts
    /\ OrchIdle
    /\ LaterIdle

generate_reviews_for_sentiment_spread ==
    /\ pc = "spread_call"
    /\ requested' = SpreadCounts(existing_reviews, sentiment_spread, target_total)
    /\ pc' = "spread_done"
    /\ UNCHANGED <<existing_reviews, sentiment_spread, target_total>>
    /\ UNCHANGED orchVars
    /\ UNCHANGED laterVars

NextSpread == generate_reviews_for_sentiment_spread

SpecSpread == InitSpread /\ [][NextSpread]_vars

----------------------------------------------------------------------------
(* Scenario resolution alone                                               *)

InitScenario ==
    /\ pc = "scenario_call"
    /\ form \in FormData
    /\ scenario_id = "None"
    /\ api_reviews = <<>>
    /\ similar_products = <<>>
    /\ diverse_products = <<>>
    /\ mock_users = <<>>
    /\ transactions = <<>>
    /\ reviews = <<>>
    /\ returned_reviews = <<>>
    /\ returned_txns = <<>>
    /\ loop_i = 1
    /\ clock = 0
    /\ user_metrics = <<>>
    /\ metrics_runs = 0
    /\ SpreadIdle
    /\ LaterIdle

ResolveScenario ==
    /\ pc = "scenario_call"
    /\ scenario_id' = determine_scenario_id(form)
    /\ pc' = "scenario_done"
    /\ UNCHANGED <<form, api_reviews, similar_products, diverse_products, mock_users,
                   transactions, reviews, returned_reviews, returned_txns, loop_i, clock>>
    /\ UNCHANGED metricVars
    /\ UNCHANGED aloneVars

NextScenario == ResolveScenario

SpecScenario == InitScenario /\ [][NextScenario]_vars

----------------------------------------------------------------------------
(* mock_trx_agent.py, mock_rvw_agent.py: the builders                      *)

Range(s) == { s[i] : i \in 1..Len(s) }

TransactionIds(txns) == { txns[i].transaction_id : i \in 1..Len(txns) }

main_product_id == 0

main_user_id == 0

\* all_products, all_users of the orchestrator (lines 65-83, 91-111), as ids.
all_products == <<main_product_id>> \o similar_products \o diverse_products

all_users == <<main_user_id>> \o mock_users

\* The fields of a transaction that other entities refer to. `origin` names
\* the orchestrator step that asked for it.
create_transaction(c, user, product, origin) ==
    [ transaction_id |-> c, item_id |-> product, user_id |-> user,
      created_at |-> c, origin |-> origin ]

\* Mutant: the review names its own id as its transaction.
review_record_own_id(c, product, user, transaction, stars, origin) ==
    [ review_id |-> c, item_id |-> product, user_id |-> user,
      transaction_id |-> c, review_stars |-> stars,
      created_at |-> c, origin |-> origin ]

\* The review dictionary every review builder fills in.
review_record(c, product, user, transaction, stars, origin) ==
    [ review_id |-> c, item_id |-> product, user_id |-> user,
      transaction_id |-> transaction.transaction_id, review_stars |-> stars,
      created_at |-> c, origin |-> origin ]

\* Mutant: the k-th review is built before the transaction it names.
creation_order_review_first(c, k) == [transaction |-> c + 2 * k, review |-> c + 2 * k - 1]

\* The k-th pass of a builder loop creates the transaction, then the review.
creation_order(c, k) == [transaction |-> c + 2 * k - 1, review |-> c + 2 * k]

\* The rating the LLM gives a review of the sentiment asked for.
SentimentStars(sentiment) ==
    CASE sentiment = "good" -> 5
      [] sentiment = "neutral" -> 3
      [] sentiment = "bad" -> 1

\* Ratings of API reviews and of the main user's reviews.
ReviewStarsSample == {1, 5}

\* _generate_reviews_with_sentiment: `picks` are the users random.choice drew,
\* one per review the LLM delivered.
generate_reviews_with_sentiment(product, picks, sentiment, c, origin) ==
    LET txn(k) == create_transaction(creation_order(c, k).transaction, picks[k], product, origin)
    IN  [ reviews |-> [ k \in 1..Len(picks) |->
                          review_record(creation_order(c, k).review, product, picks[k],
                                        txn(k), SentimentStars(sentiment), origin) ],
          transactions |-> [ k \in 1..Len(picks) |-> txn(k) ] ]

\* create_transactions_for_api_reviews: one transaction per API review.
create_transactions_for_api_reviews(picks, c) ==
    [ k \in 1..Len(picks) |-> create_transaction(c + k, picks[k], main_product_id, "2.1") ]

\* Mutant: the converted review is given to the main user.
convert_api_reviews_to_db_format_main_user(api, txns, c) ==
    [ k \in 1..Min(Len(api), Len(txns)) |->
        review_record(c + k, main_product_id, main_user_id, txns[k], api[k], "2.1") ]

\* convert_api_reviews_to_db_format: zip(api_reviews, transactions).
convert_api_reviews_to_db_format(api, txns, c) ==
    [ k \in 1..Min(Len(api), Len(txns)) |->
        review_record(c + k, main_product_id, txns[k].user_id, txns[k], api[k], "2.1") ]

\* generate_main_user_similar_reviews: per selected product a transaction,
\* then the LLM's review of it.
generate_main_user_similar_reviews(selected, stars, c) ==
    LET txn(k) == create_transaction(creation_order(c, k).transaction, main_user_id,
                                     selected[k], "4A.review")
    IN  [ reviews |-> [ k \in 1..Len(selected) |->
                          review_record(creation_order(c, k).review, selected[k],
                                        main_user_id, txn(k), stars[k], "4A.review") ],
          transactions |-> [ k \in 1..Len(selected) |-> txn(k) ] ]

\* 1000000 main-user transaction per selected product
\* (generate_main_user_similar_transactions, ..._additional_transactions).
main_user_transactions(selected, c, origin) ==
    [ k \in 1..Len(selected) |-> create_transaction(c + k, main_user_id, selected[k], origin) ]

\* The elements of s at the indices in idx, in list order.
Pick(s, idx) ==
    LET F[i \in 0..Len(s)] ==
            IF i = 0 THEN <<>>
            ELSE IF i \in idx THEN Append(F[i - 1], s[i]) ELSE F[i - 1]
    IN  F[Len(s)]

\* random.sample(s, n): the samples of n elements of s.
Samples(s, n) == { Pick(s, idx) : idx \in { x \in SUBSET (1..Len(s)) : Cardinality(x) = n } }

\* The lists random.choice can draw for n reviews: n users of `users`.
Choices(users, n) == [ 1..n -> { users[i] : i \in 1..Len(users) } ]

ItemTransactions(txns, item) == SelectSeq(txns, LAMBDA t : t.item_id = item)

ItemReviews(rvws, item) == SelectSeq(rvws, LAMBDA r : r.item_id = item)

\* Mutant: every mock user is taken as available.
available_users_unfiltered(txns, item) == mock_users

\* Lines 170-171, 219-220, 349-350: the mock users with no transaction for the item.
available_users(txns, item) ==
    LET users_who_purchased == { txns[i].user_id : i \in { j \in 1..Len(txns) : txns[j].item_id = item } }
    IN  SelectSeq(mock_users, LAMBDA u : u \notin users_who_purchased)

\* Lines 174-184, 223-232, 353-362: extra_count purchase-only transactions,
\* one per available user, in list order.
top_up_transactions(txns, item, additional_needed, c, origin) ==
    LET available == available_users(txns, item)
        extra_count == Min(additional_needed, Len(available))
    IN  [ i \in 1..extra_count |-> create_transaction(c + i, available[i], item, origin) ]

\* int(n / 0.6)
IntDiv06(n) == (n * 10) \div 6

\* Lines 212-232: the top-up loop over the similar products, from product k on.
RECURSIVE top_up_similar(_, _, _)
top_up_similar(k, txns, c) ==
    IF k > Len(similar_products) THEN txns
    ELSE LET product == similar_products[k]
             product_reviews == ItemReviews(reviews, product)
             target_transactions == IF Len(product_reviews) > 0
                                    THEN IntDiv06(Len(product_reviews)) ELSE 0
             current_transactions == Len(ItemTransactions(txns, product))
             additional_needed == Max(0, target_transactions - current_transactions)
             new == top_up_transactions(txns, product, additional_needed, c, "3.topup")
         IN  top_up_similar(k + 1, txns \o new, c + Len(new))

\* Line 103: max(int(total_expected_reviews * 1.5), mock_user_count)
calculated_user_count(config) ==
    LET total_expected_reviews ==
            config.main_product_reviews
            + config.similar_product_reviews * config.similar_product_count
    IN  Max((total_expected_reviews * 3) \div 2, config.mock_user_count)

\* The steps whose reviews come from list responses of the LLM.
LLMListOrigins == {"2.2", "3", "5"}

\* Reviews the catalog API and the LLM's list responses have delivered so far
\* in this run.

Delivered ==
    Len(api_reviews)
    + Len(SelectSeq(reviews, LAMBDA r : r.origin \in LLMListOrigins))
    + Len(returned_reviews)

Left == MaxReviews - Delivered

----------------------------------------------------------------------------
(* orchestrator.py 470-588: the user engagement metrics                    *)
(* Floats are kept exact: a quotient is the pair of its numerator and its   *)
(* denominator, and a comparison with a decimal constant is cross-          *)
(* multiplied. round(x, 3) and round(x, 2) give thousandths and hundredths; *)
(* with fewer than 8 purchases or reviews of a user no quotient lies on a   *)
(* rounding tie, so rounding to nearest is what Python's round computes.    *)

RECURSIVE SumStars(_)
SumStars(rs) == IF rs = <<>> THEN 0 ELSE rs[1].review_stars + SumStars(Tail(rs))

RECURSIVE SumSquaredStars(_)
SumSquaredStars(rs) ==
    IF rs = <<>> THEN 0 ELSE rs[1].review_stars * rs[1].review_stars + SumSquaredStars(Tail(rs))

\* round(num / den, digits) in units of 10^-digits, scale = 10^digits.
Round(q, scale) == (2 * scale * q.num + q.den) \div (2 * q.den)

\* Line 492: user_transactions.
UserTransactions(txns, user) == SelectSeq(txns, LAMBDA t : t.user_id = user)

\* Lines 499-500: the reviews whose transaction_id is one of the user's.
UserReviews(rvws, txns, user) ==
    LET user_transaction_ids == TransactionIds(UserTransactions(txns, user))
    IN  SelectSeq(rvws, LAMBDA r : r.transaction_id \in user_transaction_ids)

\* Mutant: purchases per review.
review_engagement_rate_inverted(total_reviews, total_purchases) ==
    IF total_purchases > 0 /\ total_reviews > 0
    THEN [num |-> total_purchases, den |-> total_reviews]
    ELSE [num |-> 0, den |-> 1]

\* Line 506.
review_engagement_rate(total_reviews, total_purchases) ==
    IF total_purchases > 0 THEN [num |-> total_reviews, den |-> total_purchases]
    ELSE [num |-> 0, den |-> 1]

\* Lines 509-513.
avg_review_rating(user_reviews, total_reviews) ==
    IF total_reviews > 0 THEN [num |-> SumStars(user_reviews), den |-> total_reviews]
    ELSE [num |-> 0, den |-> 1]

\* Lines 553-558: stddev > 1.5, as variance > 2.25 with
\* variance = (n * sum of squares - sum^2) / n^2; stddev is 0.0 below 2 reviews.
StddevAbove15(user_reviews, total_reviews) ==
    /\ total_reviews >= 2
    /\ LET n == Len(user_reviews)
           sum == SumStars(user_reviews)
       IN  4 * (n * SumSquaredStars(user_reviews) - sum * sum) > 9 * n * n

\* Mutant: the spread of the ratings is looked at before their average.
determine_sentiment_tendency_polarized_first(user_reviews, avg_rating, total_reviews) ==
    IF total_reviews = 0 THEN "neutral"
    ELSE IF StddevAbove15(user_reviews, total_reviews) THEN "polarized"
    ELSE IF 2 * avg_rating.num >= 9 * avg_rating.den THEN "positive"
    ELSE IF 2 * avg_rating.num <= 5 * avg_rating.den THEN "critical"
    ELSE IF total_reviews >= 3 THEN "balanced"
    ELSE "neutral"

\* _determine_sentiment_tendency.
determine_sentiment_tendency(user_reviews, avg_rating, total_reviews) ==
    IF total_reviews = 0 THEN "neutral"
    ELSE IF 2 * avg_rating.num >= 9 * avg_rating.den THEN "positive"
    ELSE IF 2 * avg_rating.num <= 5 * avg_rating.den THEN "critical"
    ELSE IF StddevAbove15(user_reviews, total_reviews) THEN "polarized"
    ELSE IF total_reviews >= 3 THEN "balanced"
    ELSE "neutral"

\* _determine_engagement_level.
determine_engagement_level(total_purchases, total_reviews, engagement_rate) ==
    IF total_reviews >= 5 /\ 10 * engagement_rate.num >= 7 * engagement_rate.den
        THEN "highly_engaged"
    ELSE IF total_reviews >= 2 /\ 10 * engagement_rate.num >= 4 * engagement_rate.den
        THEN "moderately_engaged"
    ELSE IF total_purchases > 0 THEN "passive_buyer"
    ELSE "new_user"

\* A user dictionary before the calculator has written to it.
UserRecords(ids) == [ i \in DOMAIN ids |-> [user_id |-> ids[i]] ]

\* Mutant: the purchases counted are added to the count the user already holds.
user_engagement_metrics_accumulating(user, txns, rvws) ==
    LET user_transactions == UserTransactions(txns, user.user_id)
        held == IF "total_purchases" \in DOMAIN user THEN user.total_purchases ELSE 0
        total_purchases == held + Len(user_transactions)
        user_reviews == UserReviews(rvws, txns, user.user_id)
        total_reviews == Len(user_reviews)
        rate == review_engagement_rate(total_reviews, total_purchases)
        avg == avg_review_rating(user_reviews, total_reviews)
    IN  [ user_id |-> user.user_id,
          total_purchases |-> total_purchases,
          total_reviews |-> total_reviews,
          review_engagement_rate |-> Round(rate, 1000),
          avg_review_rating |-> Round(avg, 100),
          sentiment_tendency |-> determine_sentiment_tendency(user_reviews, avg, total_reviews),
          engagement_level |-> determine_engagement_level(total_purchases, total_reviews, rate) ]

\* Lines 487-533: the body of the loop over users; the six fields it assigns.
user_engagement_metrics(user, txns, rvws) ==
    LET user_transactions == UserTransactions(txns, user.user_id)
        total_purchases == Len(user_transactions)
        user_reviews == UserReviews(rvws, txns, user.user_id)
        total_reviews == Len(user_reviews)
        rate == review_engagement_rate(total_reviews, total_purchases)
        avg == avg_review_rating(user_reviews, total_reviews)
    IN  [ user_id |-> user.user_id,
          total_purchases |-> total_purchases,
          total_reviews |-> total_reviews,
          review_engagement_rate |-> Round(rate, 1000),
          avg_review_rating |-> Round(avg, 100),
          sentiment_tendency |-> determine_sentiment_tendency(user_reviews, avg, total_reviews),
          engagement_level |-> determine_engagement_level(total_purchases, total_reviews, rate) ]

\* _calculate_user_engagement_metrics: every user dictionary is updated in place.
calculate_user_engagement_metrics(users, txns, rvws) ==
    [ i \in DOMAIN users |-> user_engagement_metrics(users[i], txns, rvws) ]

----------------------------------------------------------------------------
(* main.py generate_mock_data and orchestrator.py generate_simulation_data *)

ApiReviewInputs == SeqsUpTo(ReviewStarsSample, MaxReviews)

config == SCENARIO_CONFIGS(scenario_id)

\* The position after the decisions of lines 242-250, 287-289, 328: the
\* first step whose condition holds.
GotoStep5(diverse) == IF diverse # <<>> THEN "step5_reviews" ELSE "step6"

GotoStep4B(f, diverse) ==
    IF f.userPurchasedExact = "YES" THEN "step4_b_exact" ELSE GotoStep5(diverse)

GotoStep4(f, diverse) ==
    IF f.userPurchasedSimilar = "YES"
    THEN IF f.userReviewedSimilar = "YES" THEN "step4_a_reviews" ELSE "step4_a_purchases"
    ELSE GotoStep5(diverse)

\* Lines 195-197.
GotoStep3(f, diverse) ==
    IF f.hasSimilarProductsReviews = "yes" THEN "step3_reviews" ELSE GotoStep4(f, diverse)

\* Lines 121-127.
GotoStep2(f, api, diverse) ==
    IF f.hasMainProductReviews = "yes"
    THEN IF api # <<>> THEN "step2_1_transactions" ELSE "step2_2_reviews"
    ELSE GotoStep3(f, diverse)

Init ==
    /\ pc = "idle"
    /\ OrchIdle
    /\ SpreadIdle
    /\ LaterIdle

\* main.py 229-255: scenario, product lookup, API reviews for warm_warm only.
GenerateMockData ==
    /\ pc = "idle"
    /\ \E f \in FormData, found \in BOOLEAN, api \in ApiReviewInputs :
        /\ form' = f
        /\ scenario_id' = determine_scenario_id(f)
        /\ IF ~found
           THEN pc' = "not_found" /\ api_reviews' = <<>>
           ELSE /\ pc' = "step1"
                /\ api_reviews' = IF build_scenario_config(f).group = "warm_warm"
                                  THEN api ELSE <<>>
    /\ UNCHANGED <<similar_products, diverse_products, mock_users, transactions, reviews,
                   returned_reviews, returned_txns, loop_i, clock>>
    /\ UNCHANGED metricVars
    /\ UNCHANGED aloneVars

\* orchestrator.py 61-116: products, users, empty working lists.
Step1_Initialize ==
    /\ pc = "step1"
    /\ LET ns == Min(config.similar_product_count, MaxSimilarProducts)
           nd == Min(config.diverse_product_count, MaxDiverseProducts)
           nu == Min(calculated_user_count(config), MaxMockUsers)
       IN
        /\ similar_products' = [ i \in 1..ns |-> i ]
        /\ diverse_products' = [ i \in 1..nd |-> ns + i ]
        /\ mock_users' = [ i \in 1..nu |-> i ]
        /\ pc' = GotoStep2(form, api_reviews, diverse_products')
    /\ reviews' = <<>>
    /\ transactions' = <<>>
    /\ UNCHANGED <<form, scenario_id, api_reviews, returned_reviews, returned_txns, loop_i,
                   clock>>
    /\ UNCHANGED metricVars
    /\ UNCHANGED aloneVars

\* 131-136: transactions for the API reviews, extended into the working list.
Step2_1_ApiTransactions ==
    /\ pc = "step2_1_transactions"
    /\ mock_users # <<>>
    /\ \E picks \in Choices(mock_users, Len(api_reviews)) :
        transactions' = transactions \o create_transactions_for_api_reviews(picks, clock)
    /\ clock' = clock + Len(api_reviews)
    /\ pc' = "step2_1_reviews"
    /\ UNCHANGED <<form, scenario_id, api_reviews, similar_products, diverse_products,
                   mock_users, reviews, returned_reviews, returned_txns, loop_i>>
    /\ UNCHANGED metricVars
    /\ UNCHANGED aloneVars

\* 139-145: the API reviews converted and extended into the working list.
Step2_1_ApiReviews ==
    /\ pc = "step2_1_reviews"
    /\ LET api_transactions == SelectSeq(transactions, LAMBDA t : t.origin = "2.1")
           api_review_objects == convert_api_reviews_to_db_format(api_reviews, api_transactions, clock)
       IN  /\ reviews' = reviews \o api_review_objects
           /\ clock' = clock + Len(api_review_objects)
    /\ pc' = "step2_2_reviews"
    /\ UNCHANGED <<form, scenario_id, api_reviews, similar_products, diverse_products,
                   mock_users, transactions, returned_reviews, returned_txns, loop_i>>
    /\ UNCHANGED metricVars
    /\ UNCHANGED aloneVars

\* 149-158: sentiment-spread reviews generated; reviews.extend comes first.
Step2_2_SpreadReviews ==
    /\ pc = "step2_2_reviews"
    /\ LET counts == SpreadCounts(reviews, form.sentimentSpread, config.main_product_reviews)
       IN  \E mg \in 0..Min(counts.good, Left) :
           \E mn \in 0..Min(counts.neutral, Left - mg) :
           \E mb \in 0..Min(counts.bad, Left - mg - mn) :
             /\ (mg + mn + mb > 0) => mock_users # <<>>
             /\ \E pg \in Choices(mock_users, mg), pn \in Choices(mock_users, mn),
                   pb \in Choices(mock_users, mb) :
                LET good == generate_reviews_with_sentiment(main_product_id, pg, "good", clock, "2.2")
                    neutral == generate_reviews_with_sentiment(main_product_id, pn, "neutral",
                                                               clock + 2 * mg, "2.2")
                    bad == generate_reviews_with_sentiment(main_product_id, pb, "bad",
                                                           clock + 2 * mg + 2 * mn, "2.2")
                IN  /\ reviews' = reviews \o good.reviews \o neutral.reviews \o bad.reviews
                    /\ returned_txns' = good.transactions \o neutral.transactions
                                         \o bad.transactions
                    /\ clock' = clock + 2 * (mg + mn + mb)
    /\ pc' = "step2_2_transactions"
    /\ UNCHANGED <<form, scenario_id, api_reviews, similar_products, diverse_products,
                   mock_users, transactions, returned_reviews, loop_i>>
    /\ UNCHANGED metricVars
    /\ UNCHANGED aloneVars

\* Mutant: the transactions the builder returned are dropped, not extended
\* into the working list.
ExtendTransactions_dropped(next) ==
    /\ transactions' = transactions
    /\ returned_txns' = <<>>
    /\ pc' = next
    /\ UNCHANGED <<form, scenario_id, api_reviews, similar_products, diverse_products,
                   mock_users, reviews, returned_reviews, loop_i, clock>>
    /\ UNCHANGED metricVars
    /\ UNCHANGED aloneVars

\* 159, 208, 261, 341: transactions.extend of what the builder returned.
ExtendTransactions(next) ==
    /\ transactions' = transactions \o returned_txns
    /\ returned_txns' = <<>>
    /\ pc' = next
    /\ UNCHANGED <<form, scenario_id, api_reviews, similar_products, diverse_products,
                   mock_users, reviews, returned_reviews, loop_i, clock>>
    /\ UNCHANGED metricVars
    /\ UNCHANGED aloneVars

Step2_2_ExtendTransactions ==
    /\ pc = "step2_2_transactions"
    /\ ExtendTransactions("step2_3_topup")

\* 165-186: purchase-only transactions for the main product.
Step2_3_TopUpMain ==
    /\ pc = "step2_3_topup"
    /\ LET target_transactions == IntDiv06(Len(ItemReviews(reviews, main_product_id)))
           current_transactions == Len(ItemTransactions(transactions, main_product_id))
           additional_needed == Max(0, target_transactions - current_transactions)
           extra_main_transactions ==
               top_up_transactions(transactions, main_product_id, additional_needed, clock, "2.3")
       IN  /\ transactions' = transactions \o extra_main_transactions
           /\ clock' = clock + Len(extra_main_transactions)
    /\ pc' = GotoStep3(form, diverse_products)
    /\ UNCHANGED <<form, scenario_id, api_reviews, similar_products, diverse_products,
                   mock_users, reviews, returned_reviews, returned_txns, loop_i>>
    /\ UNCHANGED metricVars
    /\ UNCHANGED aloneVars

\* 201 (mock_rvw_agent.py 255-264): one pass of the builder's loop over the
\* similar products, for the product at loop_i.
Step3_SimilarProductReviews ==
    /\ pc = "step3_reviews"
    /\ loop_i <= Len(similar_products)
    /\ \E sentiment \in {"good", "neutral", "bad"} :
       \E m \in 0..Min(config.similar_product_reviews, Left) :
         /\ (m > 0) => mock_users # <<>>
         /\ \E picks \in Choices(mock_users, m) :
            LET r == generate_reviews_with_sentiment(similar_products[loop_i], picks,
                                                     sentiment, clock, "3")
            IN  /\ returned_reviews' = returned_reviews \o r.reviews
                /\ returned_txns' = returned_txns \o r.transactions
                /\ clock' = clock + 2 * m
    /\ loop_i' = loop_i + 1
    /\ UNCHANGED <<pc, form, scenario_id, api_reviews, similar_products, diverse_products,
                   mock_users, transactions, reviews>>
    /\ UNCHANGED metricVars
    /\ UNCHANGED aloneVars

\* 207: reviews.extend(similar_reviews), once the builder has returned.
Step3_ExtendReviews ==
    /\ pc = "step3_reviews"
    /\ loop_i > Len(similar_products)
    /\ reviews' = reviews \o returned_reviews
    /\ returned_reviews' = <<>>
    /\ loop_i' = 1
    /\ pc' = "step3_transactions"
    /\ UNCHANGED <<form, scenario_id, api_reviews, similar_products, diverse_products,
                   mock_users, transactions, returned_txns, clock>>
    /\ UNCHANGED metricVars
    /\ UNCHANGED aloneVars

Step3_ExtendTransactions ==
    /\ pc = "step3_transactions"
    /\ ExtendTransactions("step3_topup")

\* 212-232: purchase-only transactions for every similar product.
Step3_TopUpSimilar ==
    /\ pc = "step3_topup"
    /\ transactions' = top_up_similar(1, transactions, clock)
    /\ clock' = clock + (Len(transactions') - Len(transactions))
    /\ pc' = GotoStep4(form, diverse_products)
    /\ UNCHANGED <<form, scenario_id, api_reviews, similar_products, diverse_products,
                   mock_users, reviews, returned_reviews, returned_txns, loop_i>>
    /\ UNCHANGED metricVars
    /\ UNCHANGED aloneVars

\* 254-260: the main user's reviews of similar products; reviews.extend first.
Step4A_MainUserSimilarReviews ==
    /\ pc = "step4_a_reviews"
    /\ \E size \in { Min(count, Len(similar_products)) : count \in 2..4 } :
       \E selected \in Samples(similar_products, size) :
       \E stars \in [ 1..Len(selected) -> ReviewStarsSample ] :
          LET r == generate_main_user_similar_reviews(selected, stars, clock)
          IN  /\ reviews' = reviews \o r.reviews
              /\ returned_txns' = r.transactions
              /\ clock' = clock + 2 * Len(selected)
    /\ pc' = "step4_a_transactions"
    /\ UNCHANGED <<form, scenario_id, api_reviews, similar_products, diverse_products,
                   mock_users, transactions, returned_reviews, loop_i>>
    /\ UNCHANGED metricVars
    /\ UNCHANGED aloneVars

Step4A_ExtendTransactions ==
    /\ pc = "step4_a_transactions"
    /\ ExtendTransactions("step4_a_additional")

\* 265-271 (mock_trx_agent.py 205-237): purchases beyond the reviewed ones.
Step4A_AdditionalTransactions ==
    /\ pc = "step4_a_additional"
    /\ LET main_user_product_ids ==
               { transactions[i].item_id :
                   i \in { j \in 1..Len(transactions) : transactions[j].user_id = main_user_id } }
           unpurchased == SelectSeq(similar_products, LAMBDA p : p \notin main_user_product_ids)
           available_products == IF unpurchased = <<>> THEN similar_products ELSE unpurchased
       IN  \E size \in { Min(additional_count, Len(available_products)) :
                              additional_count \in 3..6 } :
           \E selected \in Samples(available_products, size) :
              /\ transactions' = transactions
                                  \o main_user_transactions(selected, clock, "4A.additional")
              /\ clock' = clock + Len(selected)
    /\ pc' = GotoStep4B(form, diverse_products)
    /\ UNCHANGED <<form, scenario_id, api_reviews, similar_products, diverse_products,
                   mock_users, reviews, returned_reviews, returned_txns, loop_i>>
    /\ UNCHANGED metricVars
    /\ UNCHANGED aloneVars

\* 278-283 (mock_trx_agent.py 166-183): purchases of similar products, no reviews.
Step4A_PurchasesOnly ==
    /\ pc = "step4_a_purchases"
    /\ \E size \in { Min(count, Len(similar_products)) : count \in 3..6 } :
       \E selected \in Samples(similar_products, size) :
          /\ transactions' = transactions
                              \o main_user_transactions(selected, clock, "4A.purchase")
          /\ clock' = clock + Len(selected)
    /\ pc' = GotoStep4B(form, diverse_products)
    /\ UNCHANGED <<form, scenario_id, api_reviews, similar_products, diverse_products,
                   mock_users, reviews, returned_reviews, returned_txns, loop_i>>
    /\ UNCHANGED metricVars
    /\ UNCHANGED aloneVars

\* 293-301: the main user's transaction for the main product.
Step4B_ExactTransaction ==
    /\ pc = "step4_b_exact"
    /\ transactions' = Append(transactions,
                              create_transaction(clock + 1, main_user_id, main_product_id,
                                                 "4B.exact"))
    /\ clock' = clock + 1
    /\ pc' = IF form.userReviewedExact = "YES" THEN "step4_b_review"
             ELSE GotoStep5(diverse_products)
    /\ UNCHANGED <<form, scenario_id, api_reviews, similar_products, diverse_products,
                   mock_users, reviews, returned_reviews, returned_txns, loop_i>>
    /\ UNCHANGED metricVars
    /\ UNCHANGED aloneVars

\* 307-313: the main user's review of the main product, for exact_txn.
Step4B_ExactReview ==
    /\ pc = "step4_b_review"
    /\ LET exact_txn == transactions[Len(transactions)]
       IN  \E stars \in ReviewStarsSample :
              reviews' = Append(reviews,
                                review_record(clock + 1, main_product_id, main_user_id,
                                              exact_txn, stars, "4B.review"))
    /\ clock' = clock + 1
    /\ pc' = GotoStep5(diverse_products)
    /\ UNCHANGED <<form, scenario_id, api_reviews, similar_products, diverse_products,
                   mock_users, transactions, returned_reviews, returned_txns, loop_i>>
    /\ UNCHANGED metricVars
    /\ UNCHANGED aloneVars

\* 333-340: reviews for the diverse product at loop_i; reviews.extend first.
Step5_DiverseReviews ==
    /\ pc = "step5_reviews"
    /\ \E sentiment \in {"good", "neutral"} :
       \E m \in { Min(delivered, minimal_review_count) :
                     delivered \in 0..Left, minimal_review_count \in 2..5 } :
         /\ (m > 0) => mock_users # <<>>
         /\ \E picks \in Choices(mock_users, m) :
            LET r == generate_reviews_with_sentiment(diverse_products[loop_i], picks,
                                                     sentiment, clock, "5")
            IN  /\ reviews' = reviews \o r.reviews
                /\ returned_txns' = r.transactions
                /\ clock' = clock + 2 * m
    /\ pc' = "step5_transactions"
    /\ UNCHANGED <<form, scenario_id, api_reviews, similar_products, diverse_products,
                   mock_users, transactions, returned_reviews, loop_i>>
    /\ UNCHANGED metricVars
    /\ UNCHANGED aloneVars

Step5_ExtendTransactions ==
    /\ pc = "step5_transactions"
    /\ ExtendTransactions("step5_topup")

\* 345-362: one or two purchase-only transactions for the diverse product.
Step5_TopUpDiverse ==
    /\ pc = "step5_topup"
    /\ \E additional_purchases \in 1..2 :
          LET new == top_up_transactions(transactions, diverse_products[loop_i],
                                         additional_purchases, clock, "5.topup")
          IN  /\ transactions' = transactions \o new
              /\ clock' = clock + Len(new)
    /\ loop_i' = IF loop_i < Len(diverse_products) THEN loop_i + 1 ELSE 1
    /\ pc' = IF loop_i < Len(diverse_products) THEN "step5_reviews" ELSE "step6"
    /\ UNCHANGED <<form, scenario_id, api_reviews, similar_products, diverse_products,
                   mock_users, reviews, returned_reviews, returned_txns>>
    /\ UNCHANGED metricVars
    /\ UNCHANGED aloneVars

\* Mutant: step 6 is passed without the call.
Step6_CalculateMetrics_not_called ==
    /\ pc = "step6"
    /\ pc' = "step7"
    /\ UNCHANGED orchVars
    /\ UNCHANGED aloneVars

\* 365-400: the statistics read the lists; step 6 calls the metrics calculator
\* once, on all_users and the working lists.
Step6_CalculateMetrics ==
    /\ pc = "step6"
    /\ user_metrics' = calculate_user_engagement_metrics(UserRecords(all_users),
                                                         transactions, reviews)
    /\ metrics_runs' = metrics_runs + 1
    /\ pc' = "step7"
    /\ UNCHANGED <<form, scenario_id, api_reviews, similar_products, diverse_products,
                   mock_users, transactions, reviews, returned_reviews, returned_txns,
                   loop_i, clock>>
    /\ UNCHANGED aloneVars

\* 405-468: enable_embeddings is scenario_config['generate_embeddings'], False in
\* every entry of SCENARIO_CONFIGS, so step 7 takes its else branch; the result
\* holds all_products, all_users, transactions and reviews.
ReturnResult ==
    /\ pc = "step7"
    /\ ~config.generate_embeddings
    /\ pc' = "returned"
    /\ UNCHANGED orchVars
    /\ UNCHANGED aloneVars

\* The steps that call the LLM or hand a builder the generate_embeddings
\* keyword.
CanRaise ==
    pc \in { "step1", "step2_1_reviews", "step2_2_reviews", "step3_reviews",
             "step4_a_reviews", "step4_b_review", "step5_reviews" }

\* An exception leaves generate_simulation_data; main.py answers HTTP 500.
BuilderRaises ==
    /\ CanRaise
    /\ pc' = "raised"
    /\ similar_products' = <<>>
    /\ diverse_products' = <<>>
    /\ mock_users' = <<>>
    /\ transactions' = <<>>
    /\ reviews' = <<>>
    /\ returned_reviews' = <<>>
    /\ returned_txns' = <<>>
    /\ loop_i' = 1
    /\ clock' = 0
    /\ UNCHANGED <<form, scenario_id, api_reviews>>
    /\ UNCHANGED metricVars
    /\ UNCHANGED aloneVars

Next ==
    \/ GenerateMockData
    \/ Step1_Initialize
    \/ Step2_1_ApiTransactions
    \/ Step2_1_ApiReviews
    \/ Step2_2_SpreadReviews
    \/ Step2_2_ExtendTransactions
    \/ Step2_3_TopUpMain
    \/ Step3_SimilarProductReviews
    \/ Step3_ExtendReviews
    \/ Step3_ExtendTransactions
    \/ Step3_TopUpSimilar
    \/ Step4A_MainUserSimilarReviews
    \/ Step4A_ExtendTransactions
    \/ Step4A_AdditionalTransactions
    \/ Step4A_PurchasesOnly
    \/ Step4B_ExactTransaction
    \/ Step4B_ExactReview
    \/ Step5_DiverseReviews
    \/ Step5_ExtendTransactions
    \/ Step5_TopUpDiverse
    \/ Step6_CalculateMetrics
    \/ ReturnResult
    \/ BuilderRaises

Spec == Init /\ [][Next]_vars

----------------------------------------------------------------------------
(* The metrics calculator alone, on lists of its caller's shape: transaction *)
(* k belongs to any of two users, and review k names transaction k.          *)

MetricUsers == <<1>>

MetricTransactionInputs ==
    { [ k \in 1..Len(u) |-> create_transaction(k, u[k], main_product_id, "input") ] :
        u \in SeqsUpTo({main_user_id, 1}, MaxMetricTransactions) }

MetricReviewInputs(txns) ==
    { [ k \in 1..Len(st) |-> [ review_id |-> Len(txns) + k, item_id |-> main_product_id,
                               user_id |-> txns[k].user_id,
                               transaction_id |-> txns[k].transaction_id,
                               review_stars |-> st[k], created_at |-> Len(txns) + k,
                               origin |-> "input" ] ] :
        st \in SeqsUpTo(Stars, Len(txns)) }

InitMetrics ==
    /\ pc = "metrics_call"
    /\ form = NoForm
    /\ scenario_id = "None"
    /\ api_reviews = <<>>
    /\ similar_products = <<>>
    /\ diverse_products = <<>>
    /\ mock_users = MetricUsers
    /\ transactions \in MetricTransactionInputs
    /\ reviews \in MetricReviewInputs(transactions)
    /\ returned_reviews = <<>>
    /\ returned_txns = <<>>
    /\ loop_i = 1
    /\ clock = 0
    /\ user_metrics = <<>>
    /\ metrics_runs = 0
    /\ SpreadIdle
    /\ LaterIdle

\* The call of orchestrator.py 399.
CalculateMetrics ==
    /\ pc = "metrics_call"
    /\ user_metrics' = calculate_user_engagement_metrics(UserRecords(all_users),
                                                         transactions, reviews)
    /\ metrics_runs' = metrics_runs + 1
    /\ pc' = "metrics_done"
    /\ UNCHANGED <<form, scenario_id, api_reviews, similar_products, diverse_products,
                   mock_users, transactions, reviews, returned_reviews, returned_txns,
                   loop_i, clock>>
    /\ UNCHANGED aloneVars

\* A second call on the same lists: the user dictionaries now hold the fields
\* the first call wrote.
CalculateMetricsAgain ==
    /\ pc = "metrics_done"
    /\ user_metrics' = calculate_user_engagement_metrics(user_metrics, transactions, reviews)
    /\ metrics_runs' = metrics_runs + 1
    /\ pc' = "metrics_again"
    /\ UNCHANGED <<form, scenario_id, api_reviews, similar_products, diverse_products,
                   mock_users, transactions, reviews, returned_reviews, returned_txns,
                   loop_i, clock>>
    /\ UNCHANGED aloneVars

NextMetrics == CalculateMetrics \/ CalculateMetricsAgain

SpecMetrics == InitMetrics /\ [][NextMetrics]_vars

----------------------------------------------------------------------------
(* The batch loops of the builders, alone:                                  *)
(* MockReviewAgent._generate_reviews_with_sentiment (mock_rvw_agent.py       *)
(* 150-233) and MockUserAgent.generate_mock_users (mock_usr_agent.py 64-170). *)
(* Each pass asks the LLM for min(batch_size, remaining) entities with one   *)
(* _call_llm and one _parse_json_response; neither loop has a try.           *)

Builders == {"reviews", "users"}

\* mock_rvw_agent.py 162 and mock_usr_agent.py 107.
batch_size(b) == IF b = "reviews" THEN 10 ELSE 20

batch_count == Min(batch_size(builder), remaining)

\* The number of entities in the LLM's answer to a request for n.
AnswerSizes(n) == {0, n, n + 1}

RECURSIVE Total(_)
Total(q) == IF q = <<>> THEN 0 ELSE q[1] + Total(Tail(q))

InitBuilder ==
    /\ pc = "builder_loop"
    /\ builder \in Builders
    /\ builder_count \in 0..MaxBuilderCount
    /\ remaining = builder_count
    /\ batches = <<>>
    /\ builder_result = NoResult
    /\ OrchIdle
    /\ SpreadIdle
    /\ StoreIdle
    /\ EmbedIdle
    /\ RetryIdle
    /\ AgentIdle

\* 1000000 pass of the while loop: the answer is parsed, cut to batch_count and
\* added to the list.
BatchSucceeds ==
    /\ pc = "builder_loop"
    /\ remaining > 0
    /\ \E answered \in AnswerSizes(batch_count) :
          batches' = Append(batches, Min(answered, batch_count))
    /\ remaining' = remaining - batch_count
    /\ UNCHANGED <<pc, builder, builder_count, builder_result>>
    /\ UNCHANGED <<orchVars, spreadVars, storeVars, embedVars, retryVars, agentVars>>

\* _call_llm re-raises the API's exception after its last attempt (base.py 83);
\* _parse_json_response raises ValueError on text that holds no JSON (base.py
\* 99, 107, 110). The loop does not catch: the exception leaves the builder
\* and the lists it had built are unreachable.
SubCallRaises(error) ==
    /\ pc = "builder_loop"
    /\ remaining > 0
    /\ builder_result' = [kind |-> error, n |-> 0]
    /\ pc' = "builder_done"
    /\ UNCHANGED <<builder, builder_count, remaining, batches>>
    /\ UNCHANGED <<orchVars, spreadVars, storeVars, embedVars, retryVars, agentVars>>

CallLLMRaises == SubCallRaises("llm_error")

ParseJsonRaises == SubCallRaises("value_error")

\* The loop ends: mock_rvw_agent.py 233, mock_usr_agent.py 170.
BuilderReturns ==
    /\ pc = "builder_loop"
    /\ remaining = 0
    /\ builder_result' = [kind |-> "returned", n |-> Min(Total(batches), builder_count)]
    /\ pc' = "builder_done"
    /\ UNCHANGED <<builder, builder_count, remaining, batches>>
    /\ UNCHANGED <<orchVars, spreadVars, storeVars, embedVars, retryVars, agentVars>>

NextBuilder == BatchSucceeds \/ CallLLMRaises \/ ParseJsonRaises \/ BuilderReturns

SpecBuilder == InitBuilder /\ [][NextBuilder]_vars

----------------------------------------------------------------------------
(* main.py 214-332 generate_mock_data against the database, with the        *)
(* orchestrator reduced to its outcome: the rows of the graph it returns,    *)
(* or an exception. Rows are names; a table is the set of its rows.          *)

PriorRows == {"prior_1", "prior_2"}

NewRows == {"new_1"}

\* supabase_client.py 115-131: the order of the deletes.
CleanupOrder == <<"survey_sessions", "reviews", "transactions", "users", "products">>

\* main.py 311-314: the order of the inserts.
InsertOrder == <<"products", "users", "transactions", "reviews">>

\* The graph has the main product and the main user at least.
MockDataInputs ==
    { g \in [ Tables -> SUBSET NewRows ] :
        /\ g["survey_sessions"] = {}
        /\ g["products"] # {}
        /\ g["users"] # {} }

InitRequest ==
    /\ pc = "request"
    /\ store \in [ Tables -> { {}, PriorRows } ]
    /\ store_before = store
    /\ mock_data \in MockDataInputs
    /\ db_step = 1
    /\ response = 0
    /\ OrchIdle
    /\ SpreadIdle
    /\ BuilderIdle
    /\ EmbedIdle
    /\ RetryIdle
    /\ AgentIdle

\* main.py 238-240: the product lookup; nothing found answers 404.
FetchProduct ==
    /\ pc = "request"
    /\ \E found \in BOOLEAN :
          IF found THEN pc' = "orchestrate" /\ response' = 0
          ELSE pc' = "responded" /\ response' = 404
    /\ UNCHANGED <<store, store_before, mock_data, db_step>>
    /\ UNCHANGED <<orchVars, spreadVars, builderVars, embedVars, retryVars, agentVars>>

\* main.py 251-256: the orchestrator returns mock_data.
OrchestratorReturns ==
    /\ pc = "orchestrate"
    /\ pc' = "cleanup"
    /\ UNCHANGED storeVars
    /\ UNCHANGED <<orchVars, spreadVars, builderVars, embedVars, retryVars, agentVars>>

\* main.py 328-332: an exception of the orchestrator answers 500.
OrchestratorRaises ==
    /\ pc = "orchestrate"
    /\ pc' = "responded"
    /\ response' = 500
    /\ UNCHANGED <<store, store_before, mock_data, db_step>>
    /\ UNCHANGED <<orchVars, spreadVars, builderVars, embedVars, retryVars, agentVars>>

\* main.py 268 and supabase_client.py 115-131: cleanup_mock_data deletes every
\* row of one table after the other.
CleanupDelete ==
    /\ pc = "cleanup"
    /\ store' = [ store EXCEPT ![CleanupOrder[db_step]] = {} ]
    /\ IF db_step < Len(CleanupOrder)
       THEN db_step' = db_step + 1 /\ pc' = pc
       ELSE db_step' = 1 /\ pc' = "insert"
    /\ UNCHANGED <<store_before, mock_data, response>>
    /\ UNCHANGED <<orchVars, spreadVars, builderVars, embedVars, retryVars, agentVars>>

\* supabase_client.py 134-137: a failing delete ends the cleanup with a
\* printed warning; the request goes on to the inserts.
CleanupRaises ==
    /\ pc = "cleanup"
    /\ db_step' = 1
    /\ pc' = "insert"
    /\ UNCHANGED <<store, store_before, mock_data, response>>
    /\ UNCHANGED <<orchVars, spreadVars, builderVars, embedVars, retryVars, agentVars>>

\* main.py 311-324: one upsert per table; after the last, the answer.
InsertBatch ==
    /\ pc = "insert"
    /\ LET t == InsertOrder[db_step]
       IN  store' = [ store EXCEPT ![t] = store[t] \cup mock_data[t] ]
    /\ IF db_step < Len(InsertOrder)
       THEN db_step' = db_step + 1 /\ pc' = pc /\ response' = response
       ELSE db_step' = db_step /\ pc' = "responded" /\ response' = 200
    /\ UNCHANGED <<store_before, mock_data>>
    /\ UNCHANGED <<orchVars, spreadVars, builderVars, embedVars, retryVars, agentVars>>

\* supabase_client.py 153-164 (and 260-271, 320-331, 343-354): the upsert of a
\* non-empty list raises; main.py 328-332 answers 500.
InsertRaises ==
    /\ pc = "insert"
    /\ mock_data[InsertOrder[db_step]] # {}
    /\ pc' = "responded"
    /\ response' = 500
    /\ UNCHANGED <<store, store_before, mock_data, db_step>>
    /\ UNCHANGED <<orchVars, spreadVars, builderVars, embedVars, retryVars, agentVars>>

NextRequest ==
    \/ FetchProduct
    \/ OrchestratorReturns
    \/ OrchestratorRaises
    \/ CleanupDelete
    \/ CleanupRaises
    \/ InsertBatch
    \/ InsertRaises

SpecRequest == InitRequest /\ [][NextRequest]_vars

----------------------------------------------------------------------------
(* base.py 155-210 generate_embeddings_batch, alone. An embedding is a      *)
(* tuple: None is the empty one, the embedding the API computes for a text   *)
(* is <<text>>, an embedding an item brought along is EarlierEmbedding. The  *)
(* text of item k is k; the placeholder "" of line 187 is 0. A call of the   *)
(* embeddings API that succeeds answers one embedding per text, in order.    *)

None == <<>>

EarlierEmbedding == <<-1>>

Embedding(text) == <<text>>

ItemInputs ==
    UNION { [ 1..n -> [ embeddings : {None, EarlierEmbedding}, text_fails : BOOLEAN ] ] :
              n \in 0..MaxItems }

\* Lines 180-187: the text of every item, "" where text_builder_fn raised.
texts == [ k \in 1..Len(embed_items_in) |-> IF embed_items_in[k].text_fails THEN 0 ELSE k ]

\* Line 195.
batch_num(i) == (i \div embed_batch_size) + 1

\* Line 194: texts[i:i + batch_size], as the positions it covers.
batch_positions(i) == (i + 1)..Min(i + embed_batch_size, Len(texts))

\* Mutant: a failed chunk adds nothing to all_embeddings.
failed_batch_embeddings_none_added(n) == <<>>

\* Line 204: [None] * len(batch_texts).
failed_batch_embeddings(n) == [ k \in 1..n |-> None ]

InitEmbed ==
    /\ pc = "embed_loop"
    /\ embed_items_in \in ItemInputs
    /\ embed_items = embed_items_in
    /\ embed_batch_size \in 1..MaxBatchSize
    /\ all_embeddings = <<>>
    /\ chunk_start = 0
    /\ failed_chunks = {}
    /\ OrchIdle
    /\ SpreadIdle
    /\ BuilderIdle
    /\ StoreIdle
    /\ RetryIdle
    /\ AgentIdle

\* Lines 176-177.
NoItems ==
    /\ pc = "embed_loop"
    /\ embed_items = <<>>
    /\ pc' = "embed_done"
    /\ UNCHANGED embedVars
    /\ UNCHANGED <<orchVars, spreadVars, builderVars, storeVars, retryVars, agentVars>>

\* Lines 193-200: generate_embeddings answers for the chunk.
ChunkSucceeds ==
    /\ pc = "embed_loop"
    /\ chunk_start < Len(texts)
    /\ all_embeddings' = all_embeddings \o
          [ k \in 1..Cardinality(batch_positions(chunk_start)) |->
                Embedding(texts[chunk_start + k]) ]
    /\ chunk_start' = chunk_start + embed_batch_size
    /\ UNCHANGED <<pc, embed_items, embed_items_in, embed_batch_size, failed_chunks>>
    /\ UNCHANGED <<orchVars, spreadVars, builderVars, storeVars, retryVars, agentVars>>

\* Lines 201-204: generate_embeddings raised after its retries.
ChunkFails ==
    /\ pc = "embed_loop"
    /\ chunk_start < Len(texts)
    /\ all_embeddings' = all_embeddings \o
          failed_batch_embeddings(Cardinality(batch_positions(chunk_start)))
    /\ failed_chunks' = failed_chunks \cup { batch_num(chunk_start) }
    /\ chunk_start' = chunk_start + embed_batch_size
    /\ UNCHANGED <<pc, embed_items, embed_items_in, embed_batch_size>>
    /\ UNCHANGED <<orchVars, spreadVars, builderVars, storeVars, retryVars, agentVars>>

\* Lines 207-210: zip(items, all_embeddings) stops at the shorter list.
AssignEmbeddings ==
    /\ pc = "embed_loop"
    /\ embed_items # <<>>
    /\ chunk_start >= Len(texts)
    /\ embed_items' = [ k \in 1..Len(embed_items) |->
                    IF k <= Len(all_embeddings)
                    THEN [ embed_items[k] EXCEPT !.embeddings = all_embeddings[k] ]
                    ELSE embed_items[k] ]
    /\ pc' = "embed_done"
    /\ UNCHANGED <<embed_items_in, embed_batch_size, all_embeddings, chunk_start, failed_chunks>>
    /\ UNCHANGED <<orchVars, spreadVars, builderVars, storeVars, retryVars, agentVars>>

NextEmbed == NoItems \/ ChunkSucceeds \/ ChunkFails \/ AssignEmbeddings

SpecEmbed == InitEmbed /\ [][NextEmbed]_vars

----------------------------------------------------------------------------
(* The three retry loops, alone: BaseMockAgent._call_llm (base.py 71-83),   *)
(* BaseMockAgent.generate_embeddings (base.py 125-140) and                   *)
(* RapidAPIClient._make_request (rapidapi_client.py 119-155). The remote end *)
(* chooses the outcome of every attempt.                                     *)

max_retries == 3

retry_delay == 1

RECURSIVE Pow2(_)
Pow2(n) == IF n = 0 THEN 1 ELSE 2 * Pow2(n - 1)

\* self.retry_delay * (2 ** attempt)
wait_time(a) == retry_delay * Pow2(a)

OpenAICallees == {"_call_llm", "generate_embeddings"}

Callees == OpenAICallees \cup {"_make_request"}

InitRetry ==
    /\ pc = "retry_loop"
    /\ callee \in Callees
    /\ attempt = 0
    /\ outcomes = <<>>
    /\ events = <<>>
    /\ retry_result = "running"
    /\ OrchIdle
    /\ SpreadIdle
    /\ BuilderIdle
    /\ StoreIdle
    /\ EmbedIdle
    /\ AgentIdle

\* The return inside the try: base.py 74-75, 128-132; rapidapi_client.py 131-133.
AttemptSucceeds ==
    /\ pc = "retry_loop"
    /\ attempt < max_retries
    /\ outcomes' = Append(outcomes, "ok")
    /\ events' = Append(events, 0)
    /\ retry_result' = "returned"
    /\ pc' = "retry_done"
    /\ UNCHANGED <<callee, attempt>>
    /\ UNCHANGED <<orchVars, spreadVars, builderVars, storeVars, embedVars, agentVars>>

\* The except branches that sleep only before another attempt and raise at the
\* last one: base.py 76-83 and 133-140; rapidapi_client.py 141-146 (Timeout),
\* 148-153 (any other exception, raise_for_status of line 139 included).
AttemptRaises ==
    /\ pc = "retry_loop"
    /\ attempt < max_retries
    /\ \E error \in IF callee \in OpenAICallees THEN {"exception"}
                   ELSE {"timeout", "exception", "error_status"} :
          outcomes' = Append(outcomes, error)
    /\ IF attempt < max_retries - 1
       THEN /\ events' = events \o <<0, wait_time(attempt)>>
            /\ attempt' = attempt + 1
            /\ UNCHANGED <<pc, retry_result>>
       ELSE /\ events' = Append(events, 0)
            /\ retry_result' = "raised"
            /\ pc' = "retry_done"
            /\ attempt' = attempt
    /\ UNCHANGED callee
    /\ UNCHANGED <<orchVars, spreadVars, builderVars, storeVars, embedVars, agentVars>>

\* rapidapi_client.py 134-136: status 429 sleeps at every attempt, the last
\* one included, and the loop goes on.
RateLimited ==
    /\ pc = "retry_loop"
    /\ callee = "_make_request"
    /\ attempt < max_retries
    /\ outcomes' = Append(outcomes, "status_429")
    /\ events' = events \o <<0, wait_time(attempt)>>
    /\ attempt' = attempt + 1
    /\ UNCHANGED <<pc, callee, retry_result>>
    /\ UNCHANGED <<orchVars, spreadVars, builderVars, storeVars, embedVars, agentVars>>

\* rapidapi_client.py 137-139: a status other than 200 and 429 below 400 makes
\* raise_for_status return; the loop goes on without a sleep.
OtherStatus ==
    /\ pc = "retry_loop"
    /\ callee = "_make_request"
    /\ attempt < max_retries
    /\ outcomes' = Append(outcomes, "status_other")
    /\ events' = Append(events, 0)
    /\ attempt' = attempt + 1
    /\ UNCHANGED <<pc, callee, retry_result>>
    /\ UNCHANGED <<orchVars, spreadVars, builderVars, storeVars, embedVars, agentVars>>

\* rapidapi_client.py 155: the loop is exhausted.
LoopExhausted ==
    /\ pc = "retry_loop"
    /\ callee = "_make_request"
    /\ attempt = max_retries
    /\ retry_result' = "raised"
    /\ pc' = "retry_done"
    /\ UNCHANGED <<callee, attempt, outcomes, events>>
    /\ UNCHANGED <<orchVars, spreadVars, builderVars, storeVars, embedVars, agentVars>>

NextRetry == AttemptSucceeds \/ AttemptRaises \/ RateLimited \/ OtherStatus \/ LoopExhausted

SpecRetry == InitRetry /\ [][NextRetry]_vars

----------------------------------------------------------------------------
(* Claims about determine_scenario_id, under SpecScenario                  *)

GroupA == {"A1", "A2", "A3", "A4"}
GroupB == {"B1", "B2", "B3", "B4"}
GroupC == {"C1", "C2", "C3", "C4"}

WarmthGroup(f) == <<is_warm_product(f), is_warm_user(f)>>

\* C4: for each of the 32 combinations of the five inputs the resolver returns
\* one id, and it is one of the 12 defined ids.
C4_EveryInputMapsToADefinedId ==
    pc = "scenario_done" => scenario_id \in ScenarioIds

C4_Witness ==
    /\ pc = "scenario_done"
    /\ form.productPurchased = "similar"
    /\ form.userPurchasedExact = "YES"
    /\ form.userReviewedSimilar = "NO"
    /\ scenario_id = "B4"

\* C5 (as claimed): an A id only for a warm product with a warm user, a B id
\* only for a cold product with a warm user, a C id only for a cold product
\* with a cold user.
C5_GroupReflectsWarmth ==
    pc = "scenario_done" =>
        /\ scenario_id \in GroupA => is_warm_product(form) /\ is_warm_user(form)
        /\ scenario_id \in GroupB => ~is_warm_product(form) /\ is_warm_user(form)
        /\ scenario_id \in GroupC => ~is_warm_product(form) /\ ~is_warm_user(form)

\* C6 (as claimed): two inputs of the same warmth group that agree on both
\* review flags receive the same id.
C6_ReviewFlagsDecideWithinGroup ==
    pc = "scenario_done" =>
        \A g \in FormData :
            ( /\ WarmthGroup(g) = WarmthGroup(form)
              /\ g.userReviewedExact = form.userReviewedExact
              /\ g.userReviewedSimilar = form.userReviewedSimilar )
            => determine_scenario_id(g) = scenario_id

\* The flags that split a warmth group: the two review flags for a warm
\* product, userPurchasedExact and userReviewedSimilar for a cold one.
SplitFlags(f) ==
    IF is_warm_product(f)
    THEN <<f.userReviewedExact, f.userReviewedSimilar>>
    ELSE <<f.userPurchasedExact, f.userReviewedSimilar>>

\* C6 (amended): within the warm-product/warm-user group the id is decided by
\* the two review flags alone; within the cold-product/warm-user group it is
\* decided by userPurchasedExact and userReviewedSimilar alone.
C6_SplitFlagsDecideWithinGroup ==
    pc = "scenario_done" =>
        \A g \in FormData :
            (WarmthGroup(g) = WarmthGroup(form) /\ SplitFlags(g) = SplitFlags(form))
            => determine_scenario_id(g) = scenario_id

C6_Witness ==
    /\ pc = "scenario_done"
    /\ scenario_id = "B3"
    /\ form.userReviewedExact = "NO"
    /\ form.userPurchasedSimilar = "NO"

----------------------------------------------------------------------------
(* Claims about generate_reviews_for_sentiment_spread, under SpecSpread     *)

RequestedTotal == requested.good + requested.neutral + requested.bad

\* C8 (as claimed): with at most target_total existing reviews the requested
\* good, neutral and bad counts sum to target_total minus the existing reviews.
C8_RequestedSumIsShortfall ==
    (pc = "spread_done" /\ Len(existing_reviews) <= target_total)
        => RequestedTotal = target_total - Len(existing_reviews)

\* C9 (as claimed): with no existing reviews the neutral and bad buckets get
\* the rounded-down share of the target, the good bucket gets its rounded-down
\* share plus the whole rounding shortfall, and 100 at 70/20/10 gives 70/20/10.
C9_RoundedDownShares ==
    (pc = "spread_done" /\ existing_reviews = <<>>) =>
        LET g == (sentiment_spread.good * target_total) \div 100
            n == (sentiment_spread.neutral * target_total) \div 100
            b == (sentiment_spread.bad * target_total) \div 100
        IN  /\ requested.neutral = n
            /\ requested.bad = b
            /\ requested.good = g + (target_total - (g + n + b))

----------------------------------------------------------------------------
(* Claims about generate_simulation_data, under Spec                       *)


\* C1: in the returned graph every transaction's item_id is the id of a
\* returned product, every transaction's user_id is the id of a returned user,
\* and every review's transaction_id is the id of a returned transaction.
C1_ReturnedGraphIsClosed ==
    pc = "returned" =>
        /\ \A i \in 1..Len(transactions) :
              /\ transactions[i].item_id \in Range(all_products)
              /\ transactions[i].user_id \in Range(all_users)
        /\ \A j \in 1..Len(reviews) :
              reviews[j].transaction_id \in TransactionIds(transactions)

C1_Witness ==
    /\ pc = "returned"
    /\ \E j \in 1..Len(reviews) : reviews[j].user_id = main_user_id
    /\ \E j \in 1..Len(reviews) : reviews[j].user_id # main_user_id
    /\ \E i \in 1..Len(transactions) : transactions[i].item_id \in Range(diverse_products)

\* C2: for every review any builder has produced, the transaction it names
\* was created before the review was.
C2_TransactionCreatedBeforeReview ==
    LET created == transactions \o returned_txns
        built == reviews \o returned_reviews
    IN  \A j \in 1..Len(built) :
            \E i \in 1..Len(created) :
                /\ created[i].transaction_id = built[j].transaction_id
                /\ created[i].created_at < built[j].created_at

C2_Witness ==
    /\ pc = "returned"
    /\ \E j \in 1..Len(reviews) : reviews[j].origin = "2.1"
    /\ \E j \in 1..Len(reviews) : reviews[j].origin = "4A.review"
    /\ \E j \in 1..Len(reviews) : reviews[j].origin = "4B.review"

ExtendPending ==
    { "step2_2_transactions", "step3_transactions", "step4_a_transactions",
      "step5_transactions" }

TopUpOrigins == { "2.3", "3.topup", "5.topup" }

MainUserTransactions(items) ==
    SelectSeq(transactions, LAMBDA t : t.user_id = main_user_id /\ t.item_id \in items)

MainUserReviews(items) ==
    SelectSeq(reviews, LAMBDA r : r.user_id = main_user_id /\ r.item_id \in items)

\* C10 (as claimed): for a request that resolves to A1 the returned graph
\* holds, for the main user, a transaction and a review for the main product,
\* a transaction for a similar product, and two reviews for similar products
\* (one per similar product when fewer than two were delivered).
C10_A1MainUserHasPurchasesAndReviews ==
    (pc = "returned" /\ scenario_id = "A1") =>
        /\ Len(MainUserTransactions({main_product_id})) >= 1
        /\ Len(MainUserReviews({main_product_id})) >= 1
        /\ Len(MainUserTransactions(Range(similar_products)))
              >= Min(1, Len(similar_products))
        /\ Len(MainUserReviews(Range(similar_products)))
              >= Min(2, Len(similar_products))

----------------------------------------------------------------------------
(* The metrics calculator                                                  *)

C12_SecondCallChangesNothing ==
    [][ pc = "metrics_done" =>
          /\ Len(user_metrics') = Len(user_metrics)
          /\ \A i \in DOMAIN user_metrics :
                /\ user_metrics'[i].total_purchases = user_metrics[i].total_purchases
                /\ user_metrics'[i].total_reviews = user_metrics[i].total_reviews
                /\ user_metrics'[i].review_engagement_rate = user_metrics[i].review_engagement_rate
                /\ user_metrics'[i].avg_review_rating = user_metrics[i].avg_review_rating
                /\ user_metrics'[i].sentiment_tendency = user_metrics[i].sentiment_tendency
                /\ user_metrics'[i].engagement_level = user_metrics[i].engagement_level ]_vars

C12_Witness ==
    /\ pc = "metrics_again"
    /\ metrics_runs = 2
    /\ \E i \in DOMAIN user_metrics :
          /\ user_metrics[i].total_purchases >= 3
          /\ user_metrics[i].total_reviews >= 2

\* C13: once the calculator has run in an orchestration, every user's
\* review_engagement_rate (in thousandths) lies between 0 and 1000, and no
\* user has more counted reviews than purchases.
C13_EngagementRateWithinUnitInterval ==
    pc \in {"step7", "returned"} =>
        \A i \in DOMAIN user_metrics :
            /\ user_metrics[i].review_engagement_rate >= 0
            /\ user_metrics[i].review_engagement_rate <= 1000
            /\ user_metrics[i].total_reviews <= user_metrics[i].total_purchases

C13_Witness ==
    /\ pc = "returned"
    /\ \E i \in DOMAIN user_metrics :
          /\ user_metrics[i].total_reviews >= 1
          /\ user_metrics[i].total_purchases > user_metrics[i].total_reviews
          /\ user_metrics[i].review_engagement_rate \in 1..999

\* The ratings of the reviews counted for a user.
CountedStars(user) ==
    LET rs == UserReviews(reviews, transactions, user)
    IN  [ k \in 1..Len(rs) |-> rs[k].review_stars ]

\* The order of decisions the tendency is stated to follow, on exact numbers:
\* with n ratings of sum S, the average is S / n and the variance is
\* the sum of (n * r - S)^2 over n^3.
StatedTendency(q) ==
    LET n == Len(q)
        S == Total(q)
        dev == Total([ k \in 1..n |-> (n * q[k] - S) * (n * q[k] - S) ])
    IN  CASE n = 0 -> "neutral"
          [] n > 0 /\ 10 * S >= 45 * n -> "positive"
          [] n > 0 /\ 10 * S < 45 * n /\ 10 * S <= 25 * n -> "critical"
          [] n > 0 /\ 10 * S < 45 * n /\ 10 * S > 25 * n /\ n >= 2 /\ 4 * dev > 9 * n * n * n
                -> "polarized"
          [] OTHER -> IF n >= 3 THEN "balanced" ELSE "neutral"

\* C14: the tendency the calculator assigns to a user follows the order: no
\* review, neutral; average at least 4.5, positive; average at most 2.5,
\* critical; standard deviation above 1.5 (two reviews or more), polarized;
\* three reviews or more, balanced; otherwise neutral.
C14_TendencyFollowsStatedOrder ==
    pc \in {"metrics_done", "metrics_again"} =>
        \A i \in DOMAIN user_metrics :
            user_metrics[i].sentiment_tendency = StatedTendency(CountedStars(user_metrics[i].user_id))

C14_Witness ==
    /\ pc = "metrics_done"
    /\ \E i, j \in DOMAIN user_metrics :
          /\ user_metrics[i].sentiment_tendency = "polarized"
          /\ user_metrics[j].sentiment_tendency = "critical"
          /\ user_metrics[j].total_reviews >= 2

----------------------------------------------------------------------------
(* Failures of the generative sub-calls                                    *)

\* C15: a failing generative sub-call (an unparseable answer, or retries
\* exhausted) never makes the builder raise: the builder goes on and returns,
\* whatever the sub-call did.
C15_SubCallFailureNeverLeavesTheBuilder ==
    pc = "builder_done" => builder_result.kind = "returned"

\* C17: when a batch fails after earlier batches succeeded, the call is not
\* aborted: the caller receives the entities of the earlier batches.
C17_EarlierBatchesAreReturned ==
    (pc = "builder_done" /\ batches # <<>>) =>
        /\ builder_result.kind = "returned"
        /\ builder_result.n >= Min(Total(batches), builder_count)

\* C16: a generation request that fails (product not found, orchestrator
\* error, or an error of one of the four batch inserts) leaves the store as it
\* was when the request arrived: no prior row deleted, no new row stored.
C16_FailedRequestLeavesStoreUntouched ==
    (pc = "responded" /\ response # 200) => store = store_before

----------------------------------------------------------------------------
(* The embedding phase                                                     *)

\* The chunk item k belongs to.
ChunkOf(k) == ((k - 1) \div embed_batch_size) + 1

\* C18: when the embedding call of a chunk has failed after its retries, the
\* items of exactly that chunk end with a null embedding; every item of every
\* other chunk ends with the embedding of its own text, at its own position;
\* the function returns (it has no raising exit).
C18_OnlyTheFailedChunkIsNull ==
    pc = "embed_done" =>
        /\ Len(embed_items) = Len(embed_items_in)
        /\ \A k \in 1..Len(embed_items) :
              IF ChunkOf(k) \in failed_chunks
              THEN embed_items[k].embeddings = None
              ELSE embed_items[k].embeddings = Embedding(texts[k])

C18_Witness ==
    /\ pc = "embed_done"
    /\ Len(embed_items) = 3
    /\ embed_batch_size = 2
    /\ failed_chunks = {1}
    /\ embed_items[3].embeddings = Embedding(3)

\* C19: an item that enters the embedding phase with a non-null embedding
\* leaves it with that same embedding, also when the call of its chunk fails.
C19_ExistingEmbeddingIsKept ==
    pc = "embed_done" =>
        \A k \in 1..Len(embed_items) :
            embed_items_in[k].embeddings # None => embed_items[k].embeddings = embed_items_in[k].embeddings

----------------------------------------------------------------------------
(* The retry policy                                                        *)

IsPrefix(p, q) == Len(p) <= Len(q) /\ \A k \in 1..Len(p) : p[k] = q[k]

\* Attempts (0) and sleeps of a call that follows the stated policy.
StatedPolicy == <<0, 1, 0, 2, 0>>

\* C20: every retried call makes at most three attempts, sleeps 1 s after the
\* first failure and 2 s after the second and at no other time, stops at its
\* first success, and ends with an error after a third failure.
C20_ThreeAttemptsWithWaitsOneAndTwo ==
    /\ IsPrefix(events, StatedPolicy)
    /\ pc = "retry_done" =>
          /\ retry_result = "returned" <=> outcomes[Len(outcomes)] = "ok"
          /\ retry_result = "raised" <=> (Len(outcomes) = 3 /\ outcomes[3] # "ok")
          /\ \A k \in 1..(Len(outcomes) - 1) : outcomes[k] # "ok"

\* C20, for _call_llm and generate_embeddings only: the two calls of the OpenAI
\* client follow the stated policy.
C20_OpenAICallsFollowStatedPolicy ==
    callee \in OpenAICallees => C20_ThreeAttemptsWithWaitsOneAndTwo

----------------------------------------------------------------------------
(* The main user's purchases, the reachable scenarios, reviews and their    *)
(* transactions                                                             *)

AdditionalPurchases == SelectSeq(transactions, LAMBDA t : t.origin = "4A.additional")

\* C21: when userPurchasedSimilar and userReviewedSimilar are both YES, the run
\* adds at least 3 and at most 6 purchase-only transactions of the main user
\* for similar products, besides those of the main user's reviews.
C21_ThreeToSixAdditionalPurchases ==
    ( /\ pc = "returned"
      /\ form.userPurchasedSimilar = "YES"
      /\ form.userReviewedSimilar = "YES" ) =>
        /\ Len(AdditionalPurchases) >= 3
        /\ Len(AdditionalPurchases) <= 6

\* C26: each of the 12 configured scenario ids is what determine_scenario_id
\* returns for one input at least.
C26_EveryConfiguredScenarioIsReturned ==
    pc = "scenario_done" =>
        \A id \in ScenarioIds : \E f \in FormData : determine_scenario_id(f) = id

\* The ids no input is resolved to.
UnreturnedScenarioIds ==
    { id \in ScenarioIds : \A f \in FormData : determine_scenario_id(f) # id }

\* C26, what holds instead: C1, C3 and C4 are the ids that are never returned.
C26_UnreturnedAreC1C3C4 ==
    pc = "scenario_done" => UnreturnedScenarioIds = {"C1", "C3", "C4"}

\* The transactions a review names.
\* C30: every review names a transaction of the list (transaction ids are
\* uuid4 values, one per transaction), and its user_id and item_id are those
\* of that transaction; the number of reviews the metrics
\* calculator counted for a user through the user's transactions is the
\* number of reviews that carry the user's id.
C30_ReviewAgreesWithItsTransaction ==
    pc = "returned" =>
        /\ \A i \in 1..Len(reviews) :
              \E j \in 1..Len(transactions) :
                  /\ transactions[j].transaction_id = reviews[i].transaction_id
                  /\ transactions[j].user_id = reviews[i].user_id
                  /\ transactions[j].item_id = reviews[i].item_id
        /\ \A k \in 1..Len(user_metrics) :
              user_metrics[k].total_reviews
                  = Cardinality({ i \in 1..Len(reviews) : reviews[i].user_id = user_metrics[k].user_id })

C30_Witness ==
    /\ pc = "returned"
    /\ \E i, j \in 1..Len(reviews) :
          /\ reviews[i].origin = "2.1"
          /\ reviews[i].user_id # main_user_id
          /\ reviews[j].user_id = main_user_id

-----------------------------------------------------------------------------
(* customer_context_agent.py 265-327 and product_context_agent.py 427-507:  *)
(* the two ranking methods, each run alone.  Scores are kept exactly: a     *)
(* component score is counted in millionths, a combined score in units of   *)
(* 10^-8 (the weights are counted in hundredths).  A date is the number of  *)
(* whole days between it and now, (now - date).days; dates carry a UTC      *)
(* offset, as the ones of the tests do, and ages are whole multiples of     *)
(* 180 days, where the decay of the purchase-history ranking is a power of  *)
(* two.                                                                     *)

MaxRanked == 2

MaxAgePeriods == 2

half_life_days == 180

\* Every variable but those of the context agents, and their idle values.
coreVars == <<orchVars, spreadVars, builderVars, storeVars, embedVars, retryVars>>

CoreIdle == OrchIdle /\ SpreadIdle /\ BuilderIdle /\ StoreIdle /\ EmbedIdle /\ RetryIdle

DaysAgo == { half_life_days * k : k \in 0..MaxAgePeriods }

\* math.exp(-days_ago * math.log(2) / half_life_days), 0.0 without a date.
transaction_recency_score(txn) ==
    IF txn.has_date THEN 1000000 \div Pow2(txn.days_ago \div half_life_days) ELSE 0

\* Mutant: the decay is turned round, older transactions score higher.
rank_score_older_first(txn) ==
    45 * txn.similarity_score
    + 30 * (IF txn.has_date THEN 1000000 - 1000000 \div Pow2(txn.days_ago \div half_life_days) ELSE 0)
    + 25 * (IF txn.has_review THEN 1000000 ELSE 0)

\* 0.45 * similarity_score + 0.30 * recency_score + 0.25 * engagement_score
rank_score(txn) ==
    45 * txn.similarity_score
    + 30 * transaction_recency_score(txn)
    + 25 * (IF txn.has_review THEN 1000000 ELSE 0)

\* math.exp(-k) in millionths, rounded to the nearest.
ExpNeg(k) ==
    CASE k = 0 -> 1000000
      [] k = 1 -> 367879
      [] k = 2 -> 135335
      [] k = 3 -> 49787
      [] k = 4 -> 18316
      [] OTHER -> 6738

\* math.exp(-days_old / 180), 0.5 when created_at is missing.
review_recency_score(review) ==
    IF review.has_date THEN ExpNeg(review.days_ago \div 180) ELSE 1000000 \div 2

\* 0.3 + (text_length / 100) * 0.4, then 0.7 + ((text_length - 100) / 200) * 0.3, then 1.0
quality_score(review) ==
    IF review.text_length < 100 THEN 300000 + review.text_length * 4000
    ELSE IF review.text_length < 300 THEN 700000 + (review.text_length - 100) * 1500
    ELSE 1000000

diversity_bonus(review) ==
    IF review.review_stars = 3 \/ review.review_stars = 4 THEN 1000000 \div 10 ELSE 0

\* recency_score * 0.50 + quality_score * 0.40 + diversity_bonus * 0.10
ranking_score(review) ==
    50 * review_recency_score(review) + 40 * quality_score(review) + 10 * diversity_bonus(review)

\* Number of list entries that list.sort(key=..., reverse=True) puts before
\* entry i: those of a higher key and, the sort being stable, those of the
\* same key that stood before it.
SortedBefore(keys, i) ==
    Cardinality({ j \in 1..Len(keys) : keys[j] > keys[i] \/ (keys[j] = keys[i] /\ j < i) })

\* Mutant: an ascending sort that is reversed afterwards, so that equal keys
\* come out in reversed order.
sort_reverse_after(keys) ==
    [ p \in 1..Len(keys) |->
        CHOOSE i \in 1..Len(keys) :
            Cardinality({ j \in 1..Len(keys) :
                keys[j] > keys[i] \/ (keys[j] = keys[i] /\ j > i) }) = p - 1 ]

\* list.sort(key=..., reverse=True): the positions of the entries, in the
\* order the sort leaves them in.
sort_reverse(keys) ==
    [ p \in 1..Len(keys) |-> CHOOSE i \in 1..Len(keys) : SortedBefore(keys, i) = p - 1 ]

\* The transactions with txn["rank_score"] set, sorted; `position` is the
\* place the dictionary had in the list handed in.
rank_transactions_by_similarity_recency_engagement(txns) ==
    LET keys == [ i \in 1..Len(txns) |-> rank_score(txns[i]) ]
        order == sort_reverse(keys)
    IN  [ p \in 1..Len(txns) |->
            [ position |-> order[p], item |-> txns[order[p]], score |-> keys[order[p]] ] ]

\* The copies {**review, "ranking_score": final_score}, sorted; [] for no reviews.
rank_reviews_by_quality_and_recency(rvws) ==
    IF Len(rvws) = 0 THEN <<>>
    ELSE LET keys == [ i \in 1..Len(rvws) |-> ranking_score(rvws[i]) ]
             order == sort_reverse(keys)
         IN  [ p \in 1..Len(rvws) |->
                 [ position |-> order[p], item |-> rvws[order[p]], score |-> keys[order[p]] ] ]

SimilarityScores == { 700000, 900000 }

TextLengths == { 50, 200, 400 }

ReviewStars == { 3, 5 }

Undated == [ has_date |-> FALSE, days_ago |-> 0 ]

Dates == { Undated } \cup { [ has_date |-> TRUE, days_ago |-> d ] : d \in DaysAgo }

RankedTransactionInputs ==
    { [ similarity_score |-> s, has_date |-> d.has_date, days_ago |-> d.days_ago, has_review |-> r ] :
        s \in SimilarityScores, d \in Dates, r \in BOOLEAN }

RankedReviewInputs ==
    { [ text_length |-> l, has_date |-> d.has_date, days_ago |-> d.days_ago, review_stars |-> st ] :
        l \in TextLengths, d \in Dates, st \in ReviewStars }

InitRank ==
    /\ pc = "rank_call"
    /\ \/ /\ rank_kind = "transactions"
          /\ rank_in \in SeqsUpTo(RankedTransactionInputs, MaxRanked)
       \/ /\ rank_kind = "reviews"
          /\ rank_in \in SeqsUpTo(RankedReviewInputs, MaxRanked)
    /\ ranked = <<>>
    /\ CustomerIdle
    /\ ProductIdle
    /\ llm_response = "none"
    /\ SurveyIdle
    /\ CoreIdle

RankTransactions ==
    /\ pc = "rank_call"
    /\ rank_kind = "transactions"
    /\ ranked' = rank_transactions_by_similarity_recency_engagement(rank_in)
    /\ pc' = "rank_done"
    /\ UNCHANGED <<rank_kind, rank_in>>
    /\ UNCHANGED <<coreVars, customerVars, productVars, llm_response, surveyVars>>

RankReviews ==
    /\ pc = "rank_call"
    /\ rank_kind = "reviews"
    /\ ranked' = rank_reviews_by_quality_and_recency(rank_in)
    /\ pc' = "rank_done"
    /\ UNCHANGED <<rank_kind, rank_in>>
    /\ UNCHANGED <<coreVars, customerVars, productVars, llm_response, surveyVars>>

NextRank == RankTransactions \/ RankReviews

SpecRank == InitRank /\ [][NextRank]_vars

\* C22: the purchase-history ranking returns the transactions it was given,
\* each once, in an order of non-increasing combined score, and two
\* transactions of the same combined score stay in the order they came in.
C22_RankingIsStableDescendingPermutation ==
    (pc = "rank_done" /\ rank_kind = "transactions") =>
        /\ Len(ranked) = Len(rank_in)
        /\ { ranked[p].position : p \in 1..Len(ranked) } = 1..Len(rank_in)
        /\ \A p \in 1..Len(ranked) :
              /\ ranked[p].item = rank_in[ranked[p].position]
              /\ ranked[p].score
                    = 45 * ranked[p].item.similarity_score
                      + 30 * (IF ranked[p].item.has_date
                              THEN 1000000 \div Pow2(ranked[p].item.days_ago \div 180) ELSE 0)
                      + 25 * (IF ranked[p].item.has_review THEN 1000000 ELSE 0)
        /\ \A p, q \in 1..Len(ranked) :
              p < q =>
                  /\ ranked[p].score >= ranked[q].score
                  /\ ranked[p].score = ranked[q].score => ranked[p].position < ranked[q].position

\* Two transactions of the same combined score, left in the order they came in.
C22_Witness ==
    /\ pc = "rank_done"
    /\ rank_kind = "transactions"
    /\ Len(ranked) = 2
    /\ ranked[1].score = ranked[2].score
    /\ ranked[1].position = 1
    /\ ranked[2].position = 2

\* C22, the other case: the sort moves the second transaction to the front.
C22_WitnessReordered ==
    /\ pc = "rank_done"
    /\ rank_kind = "transactions"
    /\ Len(ranked) = 2
    /\ ranked[1].position = 2
    /\ ranked[1].score > ranked[2].score

SameButAge(a, b) ==
    /\ a.has_date
    /\ b.has_date
    /\ [a EXCEPT !.days_ago = 0] = [b EXCEPT !.days_ago = 0]

\* C23: in both rankings, of two entries that differ in nothing but their
\* age, the one with fewer elapsed days has a combined score at least as
\* high as the older one's.
C23_YoungerScoresAtLeastAsHigh ==
    pc = "rank_done" =>
        \A p, q \in 1..Len(ranked) :
            ( /\ SameButAge(ranked[p].item, ranked[q].item)
              /\ ranked[p].item.days_ago < ranked[q].item.days_ago )
                => ranked[p].score >= ranked[q].score

\* Two reviews that differ in age only, the older one handed in first.
C23_Witness ==
    /\ pc = "rank_done"
    /\ rank_kind = "reviews"
    /\ Len(ranked) = 2
    /\ SameButAge(ranked[1].item, ranked[2].item)
    /\ ranked[1].item.days_ago < ranked[2].item.days_ago
    /\ ranked[1].position = 2

\* C23, the purchase-history ranking: the same two transactions, both ages.
C23_WitnessTransactions ==
    /\ pc = "rank_done"
    /\ rank_kind = "transactions"
    /\ Len(ranked) = 2
    /\ SameButAge(ranked[1].item, ranked[2].item)
    /\ ranked[1].item.days_ago < ranked[2].item.days_ago
    /\ ranked[1].position = 2

-----------------------------------------------------------------------------
(* customer_context_agent.py 474-602: _generate_from_similar_products, run  *)
(* alone on a ranked list of similar-product transactions.  The answer of   *)
(* the LLM is an input: JSON the parser accepts, or anything else.          *)

MaxSimilarFound == 10

LLMResponses == { "json", "not_json" }

Take(s, n) == SubSeq(s, 1, Min(n, Len(s)))

\* similar_interactions[:10]
top_transactions(interactions) == Take(interactions, 10)

\* for txn in top_transactions[:5]: the transactions the prompt shows
txn_texts(interactions) == Take(top_transactions(interactions), 5)

reviewed_txns(interactions) == SelectSeq(top_transactions(interactions), LAMBDA t : t.has_review)

\* min(0.80, 0.55 + min(0.15, reviews * 0.03) + min(0.10, (top similarity - 0.7) / 2)), in millionths
similar_confidence_score(interactions) ==
    Min(800000,
        550000
        + Min(150000, Len(reviewed_txns(interactions)) * 30000)
        + Min(100000, (interactions[1].similarity_score - 700000) \div 2))

\* The fallback CustomerContext handed to _parse_llm_response.
customer_fallback(interactions) ==
    [ context_type |-> "similar_products",
      purchase_patterns |-> "Similar product buyer",
      confidence_score |-> 650000,
      data_points_used |-> Len(top_transactions(interactions)) ]

\* CustomerContext(**json_obj): what the LLM wrote, the defaults elsewhere.
customer_parsed ==
    [ context_type |-> "demographics_only",
      purchase_patterns |-> "llm",
      confidence_score |-> 500000,
      data_points_used |-> 0 ]

\* "Set metadata": lines 587-595.
similar_products_metadata(context, interactions) ==
    [ context EXCEPT !.context_type = "similar_products",
                     !.confidence_score = similar_confidence_score(interactions),
                     !.data_points_used = Len(top_transactions(interactions)) ]

SimilarInteractionInputs ==
    { q \in SeqsUpTo(BOOLEAN, MaxSimilarFound) : Len(q) > 0 }

InitCustomer ==
    /\ pc = "customer_call"
    /\ \E flags \in SimilarInteractionInputs, s \in SimilarityScores :
          similar_interactions =
              [ i \in 1..Len(flags) |-> [ has_review |-> flags[i], similarity_score |-> s ] ]
    /\ llm_response = "none"
    /\ customer_context = NoContext
    /\ RankIdle
    /\ ProductIdle
    /\ SurveyIdle
    /\ CoreIdle

\* response = chain.invoke({...})
CustomerLLMAnswers ==
    /\ pc = "customer_call"
    /\ llm_response' \in LLMResponses
    /\ pc' = "customer_parse"
    /\ UNCHANGED <<customerVars, coreVars, rankVars, productVars, surveyVars>>

\* _parse_llm_response returns CustomerContext(**json_obj); the metadata is set.
CustomerParsed ==
    /\ pc = "customer_parse"
    /\ llm_response = "json"
    /\ customer_context' = similar_products_metadata(customer_parsed, similar_interactions)
    /\ pc' = "customer_done"
    /\ UNCHANGED <<similar_interactions, llm_response, coreVars, rankVars, productVars, surveyVars>>

\* _parse_llm_response returns the fallback; the metadata is set.
CustomerFallback ==
    /\ pc = "customer_parse"
    /\ llm_response = "not_json"
    /\ customer_context' =
          similar_products_metadata(customer_fallback(similar_interactions), similar_interactions)
    /\ pc' = "customer_done"
    /\ UNCHANGED <<similar_interactions, llm_response, coreVars, rankVars, productVars, surveyVars>>

NextCustomer == CustomerLLMAnswers \/ CustomerParsed \/ CustomerFallback

SpecCustomer == InitCustomer /\ [][NextCustomer]_vars

\* C24: on the similar-products path the returned context counts at most
\* five data points, however many similar-product transactions were found.
C24_AtMostFiveDataPoints ==
    pc = "customer_done" => customer_context.data_points_used <= 5

\* C24, what holds instead: the count is that of the first ten transactions,
\* while the prompt shows the first five.
C24_DataPointsAreTheFirstTen ==
    pc = "customer_done" =>
        /\ customer_context.data_points_used = Min(10, Len(similar_interactions))
        /\ Len(txn_texts(similar_interactions)) = Min(5, Len(similar_interactions))

-----------------------------------------------------------------------------
(* product_context_agent.py 156-239, 612-690: the direct-reviews path of    *)
(* the product context, run alone.  Confidence is counted in hundredths.    *)

MaxDirectReviews == 30

Placeholder == "Unable to analyze - please check logs"

\* min(0.95, 0.70 + min(0.25, num_reviews / 100))
calculate_confidence_direct(n) == Min(95, 70 + Min(25, n))

\* The except branch of _parse_llm_response.
product_fallback(fallback_type, fallback_confidence) ==
    [ key_features |-> <<Placeholder>>,
      context_type |-> fallback_type,
      confidence_score |-> fallback_confidence ]

\* ProductContext(**json_obj): what the LLM wrote.
product_parsed ==
    [ key_features |-> <<"llm">>, context_type |-> "generic", confidence_score |-> 50 ]

\* "Set metadata": lines 235-237.
direct_reviews_metadata(context, n) ==
    [ context EXCEPT !.context_type = "direct_reviews",
                     !.confidence_score = calculate_confidence_direct(n) ]

InitProduct ==
    /\ pc = "product_call"
    /\ num_reviews \in 0..MaxDirectReviews
    /\ llm_response = "none"
    /\ product_context = NoContext
    /\ RankIdle
    /\ CustomerIdle
    /\ SurveyIdle
    /\ CoreIdle

\* if not reviews: return self._generate_from_main_product_description_only(product)
NoReviewsFetched ==
    /\ pc = "product_call"
    /\ num_reviews = 0
    /\ pc' = "product_description_only"
    /\ UNCHANGED <<productVars, llm_response, coreVars, rankVars, customerVars, surveyVars>>

ProductLLMAnswers ==
    /\ pc = "product_call"
    /\ num_reviews > 0
    /\ llm_response' \in LLMResponses
    /\ pc' = "product_parse"
    /\ UNCHANGED <<productVars, coreVars, rankVars, customerVars, surveyVars>>

ProductParsed ==
    /\ pc = "product_parse"
    /\ llm_response = "json"
    /\ product_context' = direct_reviews_metadata(product_parsed, num_reviews)
    /\ pc' = "product_done"
    /\ UNCHANGED <<num_reviews, llm_response, coreVars, rankVars, customerVars, surveyVars>>

ProductFallback ==
    /\ pc = "product_parse"
    /\ llm_response = "not_json"
    /\ product_context' = direct_reviews_metadata(product_fallback("direct_reviews", 30), num_reviews)
    /\ pc' = "product_done"
    /\ UNCHANGED <<num_reviews, llm_response, coreVars, rankVars, customerVars, surveyVars>>

NextProduct == NoReviewsFetched \/ ProductLLMAnswers \/ ProductParsed \/ ProductFallback

SpecProduct == InitProduct /\ [][NextProduct]_vars

\* C25: when the answer of the LLM is not JSON, the direct-reviews path
\* returns the fallback context: context_type direct_reviews, confidence
\* exactly 0.3, first key feature the placeholder, for any number of reviews.
C25_ParseFailureReturnsFallback ==
    (pc = "product_done" /\ llm_response = "not_json") =>
        /\ product_context.context_type = "direct_reviews"
        /\ product_context.confidence_score = 30
        /\ product_context.key_features[1] = Placeholder

\* C25, what holds instead: type and placeholder are as stated, the
\* confidence is the one of the direct-reviews formula.
C25_FallbackKeepsTypeAndPlaceholder ==
    (pc = "product_done" /\ llm_response = "not_json") =>
        /\ product_context.context_type = "direct_reviews"
        /\ product_context.confidence_score = calculate_confidence_direct(num_reviews)
        /\ product_context.confidence_score >= 71
        /\ product_context.key_features[1] = Placeholder

-----------------------------------------------------------------------------
(* survey_agent.py 204-279, 281-436, 568-886: one survey session, the calls *)
(* submit_answer, skip_question and edit_answer arriving in any order.  The *)
(* cached state keeps the fields the three calls read and write; the list   *)
(* all_questions is kept as its length.  The module config (settings) is    *)
(* not part of the sources: its three limits are drawn at the start.        *)

MaxQuestions == 5

MAX_CONSECUTIVE_SKIPS == 3

\* The option a submitted answer selects, and the option an edit selects.
SubmittedOptions == { "A" }

EditedOptions == { "B" }

NoCall == [ op |-> "none", raised |-> FALSE, question_number |-> 0, answer |-> "none" ]

\* The limits the sessions are run with.
SurveySettings ==
    { [ min_answered_questions |-> 2, max_answered_questions |-> 3, max_survey_questions |-> 3 ],
      [ min_answered_questions |-> 3, max_answered_questions |-> 4, max_survey_questions |-> 6 ] }

\* The numbers of valid questions an answer of the LLM adds.
NewQuestionCounts == { 0, 1 }

\* The state start_survey caches: the initial questions, the first one presented.
InitialState(n) ==
    [ n_questions |-> n,
      current_question_index |-> 0,
      answers |-> <<>>,
      total_questions_asked |-> 1,
      answered_questions_count |-> 0,
      skipped_questions |-> {},
      consecutive_skips |-> 0 ]

\* An answer appends its record and resets consecutive_skips; a skip records
\* the index and counts one more consecutive skip.
process_answer(state, answer, is_skipped) ==
    IF is_skipped
    THEN [ state EXCEPT !.current_question_index = @ + 1,
                        !.skipped_questions = @ \cup { state.current_question_index },
                        !.consecutive_skips = @ + 1 ]
    ELSE [ state EXCEPT !.answers = Append(@, [ question_index |-> state.current_question_index,
                                                 answer |-> answer ]),
                        !.current_question_index = @ + 1,
                        !.answered_questions_count = @ + 1,
                        !.consecutive_skips = 0 ]

route_after_answer(state, settings) ==
    IF state.answered_questions_count >= settings.max_answered_questions THEN "complete_survey"
    ELSE IF state.answered_questions_count >= settings.min_answered_questions THEN "complete_survey"
    ELSE IF state.total_questions_asked >= settings.max_survey_questions THEN "generate_followup"
    ELSE IF state.answered_questions_count > 0 /\ state.answered_questions_count % 3 = 0
         THEN "generate_followup"
    ELSE IF state.current_question_index < state.n_questions THEN "ask_next"
    ELSE "generate_followup"

\* new_valid is the number of questions of the LLM's answer that have two
\* options or more; the list is kept within MaxQuestions.
generate_followup_questions(state, settings, new_valid) ==
    IF state.total_questions_asked >= settings.max_survey_questions THEN state
    ELSE [ state EXCEPT !.n_questions = @ + Min(new_valid, Max(0, MaxQuestions - @)) ]

present_question(state) ==
    IF state.current_question_index >= state.n_questions THEN state
    ELSE [ state EXCEPT !.total_questions_asked = @ + 1 ]

Raised(cache, stored) == [ cache |-> cache, stored |-> stored, raised |-> TRUE ]

Returned(cache, stored) == [ cache |-> cache, stored |-> stored, raised |-> FALSE ]

\* What follows _process_answer in submit_answer and in skip_question: the
\* route, the completion, the follow-up questions.  The lookup of the next
\* question raises IndexError before the cache is written when no question
\* is left.
after_answer(cache, stored, updated, settings, new_valid) ==
    LET next_route == route_after_answer(updated, settings)
        presented == present_question(generate_followup_questions(updated, settings, new_valid))
    IN  IF next_route = "complete_survey" THEN Returned(NoSession, updated)
        ELSE IF next_route = "generate_followup"
             THEN IF presented.current_question_index >= presented.n_questions
                  THEN Raised(cache, stored)
                  ELSE Returned(presented, stored)
        ELSE Returned(updated, stored)

submit_answer(cache, stored, settings, answer, new_valid) ==
    IF cache = NoSession THEN Raised(cache, stored)
    ELSE IF cache.current_question_index >= cache.n_questions THEN Raised(cache, stored)
    ELSE after_answer(cache, stored, process_answer(cache, answer, FALSE), settings, new_valid)

\* Mutant: the limit on consecutive skips is not looked at.
skip_question_unlimited(cache, stored, settings, new_valid) ==
    IF cache = NoSession THEN Raised(cache, stored)
    ELSE IF /\ cache.answered_questions_count < settings.min_answered_questions
            /\ cache.n_questions - cache.current_question_index <= 1
         THEN Raised(cache, stored)
    ELSE IF cache.current_question_index >= cache.n_questions THEN Raised(cache, stored)
    ELSE after_answer(cache, stored, process_answer(cache, "none", TRUE), settings, new_valid)

\* The route after a skip is "complete_survey" only with the minimum of
\* answered questions reached, which is what line 723 asks again.
skip_question(cache, stored, settings, new_valid) ==
    IF cache = NoSession THEN Raised(cache, stored)
    ELSE IF cache.consecutive_skips >= MAX_CONSECUTIVE_SKIPS THEN Raised(cache, stored)
    ELSE IF /\ cache.answered_questions_count < settings.min_answered_questions
            /\ cache.n_questions - cache.current_question_index <= 1
         THEN Raised(cache, stored)
    ELSE IF cache.current_question_index >= cache.n_questions THEN Raised(cache, stored)
    ELSE after_answer(cache, stored, process_answer(cache, "none", TRUE), settings, new_valid)

\* current_state["answers"][:question_index] and the new record appended
branched_answers(state, question_index, new_answer) ==
    Append(Take(state.answers, question_index),
           [ question_index |-> question_index, answer |-> new_answer ])

edit_answer(cache, stored, question_number, new_answer) ==
    LET question_index == question_number - 1
        branched == branched_answers(cache, question_index, new_answer)
        skipped_set == { idx \in cache.skipped_questions : idx < question_index }
    IN  IF cache = NoSession THEN Raised(cache, stored)
        ELSE IF question_index < 0 \/ question_index >= cache.n_questions THEN Raised(cache, stored)
        ELSE Returned(
                [ cache EXCEPT
                    !.answers = branched,
                    !.current_question_index = question_index + 1,
                    !.total_questions_asked = Len(branched),
                    !.answered_questions_count =
                        Len(SelectSeq(branched, LAMBDA ans : ans.question_index \notin skipped_set)),
                    !.skipped_questions = skipped_set,
                    !.consecutive_skips = 0 ],
                stored)

InitSurvey ==
    /\ pc = "survey"
    /\ survey_settings \in SurveySettings
    /\ \E n \in 1..MaxQuestions : session_cache = InitialState(n)
    /\ persisted = NoSession
    /\ last_call = NoCall
    /\ RankIdle
    /\ CustomerIdle
    /\ ProductIdle
    /\ llm_response = "none"
    /\ CoreIdle

SubmitAnswer ==
    /\ pc = "survey"
    /\ \E answer \in SubmittedOptions, new_valid \in NewQuestionCounts :
          LET result == submit_answer(session_cache, persisted, survey_settings, answer, new_valid)
          IN  /\ session_cache' = result.cache
              /\ persisted' = result.stored
              /\ last_call' = [ op |-> "submit_answer", raised |-> result.raised,
                                question_number |-> 0, answer |-> "none" ]
    /\ UNCHANGED <<pc, survey_settings, coreVars, contextVars>>

SkipQuestion ==
    /\ pc = "survey"
    /\ \E new_valid \in NewQuestionCounts :
          LET result == skip_question(session_cache, persisted, survey_settings, new_valid)
          IN  /\ session_cache' = result.cache
              /\ persisted' = result.stored
              /\ last_call' = [ op |-> "skip_question", raised |-> result.raised,
                                question_number |-> 0, answer |-> "none" ]
    /\ UNCHANGED <<pc, survey_settings, coreVars, contextVars>>

EditAnswer ==
    /\ pc = "survey"
    /\ \E question_number \in 0..MaxQuestions, new_answer \in EditedOptions :
          LET result == edit_answer(session_cache, persisted, question_number, new_answer)
          IN  /\ session_cache' = result.cache
              /\ persisted' = result.stored
              /\ last_call' = [ op |-> "edit_answer", raised |-> result.raised,
                                question_number |-> question_number, answer |-> new_answer ]
    /\ UNCHANGED <<pc, survey_settings, coreVars, contextVars>>

NextSurvey == SubmitAnswer \/ SkipQuestion \/ EditAnswer

SpecSurvey == InitSurvey /\ [][NextSurvey]_vars

AnsweredQuestions(state) == { state.answers[i].question_index : i \in 1..Len(state.answers) }

AnswersTo(state, idx) == SelectSeq(state.answers, LAMBDA ans : ans.question_index = idx)

\* C27: a session is completed only when at least min_answered_questions
\* different questions hold an answer; skips and second answers to one
\* question do not count.
C27_CompletedOnlyWithMinimumDistinctAnswers ==
    persisted # NoSession =>
        Cardinality(AnsweredQuestions(persisted)) >= survey_settings.min_answered_questions

\* C27, what holds instead: the counter of the completed session has reached
\* the minimum; it is the number of stored answer records.
C27_CompletedOnlyWithMinimumCount ==
    persisted # NoSession =>
        /\ persisted.answered_questions_count >= survey_settings.min_answered_questions
        /\ persisted.answered_questions_count <= Len(persisted.answers)

EditReturned ==
    /\ last_call'.op = "edit_answer"
    /\ ~last_call'.raised

\* C28: after edit_answer on question k the stored answers hold exactly one
\* answer to question k, the new one; every answer given before to a question
\* ahead of k is kept and no answer to a question after k is left.
C28_EditBranchesFromTheQuestion ==
    [][ EditReturned =>
          LET k == last_call'.question_number - 1
          IN  /\ AnswersTo(session_cache', k) = << [ question_index |-> k, answer |-> last_call'.answer ] >>
              /\ \A idx \in 0..(k - 1) : AnswersTo(session_cache', idx) = AnswersTo(session_cache, idx)
              /\ \A idx \in AnsweredQuestions(session_cache') : idx <= k ]_vars

\* C28, what holds instead: in a session without skipped questions the edit
\* does branch from the question.
C28_EditBranchesWithoutSkips ==
    [][ ( /\ EditReturned
          /\ \A i \in 1..Len(session_cache.answers) : session_cache.answers[i].question_index = i - 1 ) =>
          LET k == last_call'.question_number - 1
          IN  /\ AnswersTo(session_cache', k) = << [ question_index |-> k, answer |-> last_call'.answer ] >>
              /\ \A idx \in 0..(k - 1) : AnswersTo(session_cache', idx) = AnswersTo(session_cache, idx)
              /\ \A idx \in AnsweredQuestions(session_cache') : idx <= k ]_vars

\* C29: consecutive_skips never exceeds 3; a skip_question call at 3 raises
\* and leaves the cached state as it was; a submit_answer or edit_answer
\* call that returns leaves consecutive_skips at 0 (or completes the session).
C29_ConsecutiveSkipsAtMostThree ==
    [][ /\ session_cache' # NoSession => session_cache'.consecutive_skips <= 3
        /\ ( /\ last_call'.op = "skip_question"
             /\ session_cache # NoSession
             /\ session_cache.consecutive_skips = 3 )
               => ( last_call'.raised /\ session_cache' = session_cache /\ persisted' = persisted )
        /\ ( /\ last_call'.op \in { "submit_answer", "edit_answer" }
             /\ ~last_call'.raised
             /\ session_cache' # NoSession )
               => session_cache'.consecutive_skips = 0 ]_vars

\* A skip_question call has just been refused at three consecutive skips,
\* with questions left that would have let it through otherwise.
C29_Witness ==
    /\ session_cache # NoSession
    /\ session_cache.consecutive_skips = 3
    /\ session_cache.n_questions - session_cache.current_question_index >= 2
    /\ last_call.op = "skip_question"
    /\ last_call.raised

\* C29, the reset: an answer has been accepted in a session that had skips before it.
C29_WitnessReset ==
    /\ session_cache # NoSession
    /\ session_cache.consecutive_skips = 0
    /\ session_cache.skipped_questions # {}
    /\ last_call.op = "submit_answer"
    /\ ~last_call.raised

====
